---- MODULE Spec2Model ----
(***************************************************************************)
(* Position maintenance of the Kanban board API: boards, lists and tasks   *)
(* kept in the relational store, and the service operations of            *)
(* boardService.ts (boardService, listService) and taskService.ts that    *)
(* create, reorder, move and delete them.                                 *)
(*                                                                         *)
(* Rows are functions from ids to records; DOMAIN is the set of rows that *)
(* exist.  Ids are never reused (uuid primary keys): the counters in ids  *)
(* hand out fresh ones.  Payload columns no operation branches on         *)
(* (description, color, title, priority, due_date, timestamps, the        *)
(* "changes" JSON of a log entry) are left out.                           *)
(***************************************************************************)
EXTENDS Integers, Sequences, FiniteSets, TLC

\* ---- bounds of the model ------------------------------------------------
MaxBoards == 2
MaxNewLists == 1
MaxTasks == 3
MaxPos == 3
MaxLog == 5
MaxClients == 2

\* ---- inputs ---------------------------------------------------------------
Users == {"u1", "u2"}
NoName == "undefined"
NoPosition == -1
NoTask == 0
Roles == {"admin", "editor", "viewer"}
NoRole == "undefined"
NoProfile == "u0"
BoardNames == {"B", "Renamed"}
BoardName == "B"
ConcOwner == "u1"
ListNames == {"X"}
Positions == 0..MaxPos
AuthPositions == {1}
AuthLists == {1, 2}
AuthTasks == {1, 2}

DefaultLists_Single == <<"To Do">>

DefaultLists == <<"To Do", "In Progress", "Done">>

BoardIds == 1..MaxBoards
ListIds == 1..(Len(DefaultLists) * MaxBoards + MaxNewLists)
TaskIds == 1..MaxTasks

\* boards, members, lists, tasks, log: the tables of the store (committed rows)
\* ids:  how many ids each table has handed out
\* last: the request served last: the operation, the row it was about, and that
\*       row's scope (board of a list, list of a task) before it
\* req:  the requests in flight, one per client: where the handler stands (pc),
\*       its arguments, the row it read first, and the rows its open
\*       transaction has written and not yet committed (wl, wt); user_id is
\*       the caller, assignee_id the user an assignee or member request is about;
\*       gate is the authorize middleware of the route the request stands in
\* assignees: the task_assignees table, rows (task_id, user_id)
VARIABLES boards, members, lists, tasks, log, ids, last, req, assignees

vars == <<boards, members, lists, tasks, log, ids, last, req, assignees>>

EmptyRows == [r \in {} |-> 0]

\* ---- queries ----------------------------------------------------------------
ListsOfBoard(ls, b) == {l \in DOMAIN ls : ls[l].board_id = b}

TasksOfList(ts, l) == {t \in DOMAIN ts : ts[t].list_id = l}

SetMax(S) == CHOOSE x \in S : \A y \in S : y <= x

NextListPosition_Count(ls, b) == Cardinality(ListsOfBoard(ls, b))

\* findFirst({orderBy: position desc}) then (last?.position ?? -1) + 1
NextListPosition(ls, b) ==
  IF ListsOfBoard(ls, b) = {} THEN 0
  ELSE SetMax({ls[l].position : l \in ListsOfBoard(ls, b)}) + 1

NextTaskPosition(ts, l) ==
  IF TasksOfList(ts, l) = {} THEN 0
  ELSE SetMax({ts[t].position : t \in TasksOfList(ts, l)}) + 1

\* updateMany({data: {position: {increment|decrement: 1}}}) on the rows S
ShiftPositions(rows, S, delta) ==
  [r \in DOMAIN rows |->
     IF r \in S THEN [rows[r] EXCEPT !.position = @ + delta] ELSE rows[r]]

DeleteRows(rows, S) == [r \in DOMAIN rows \ S |-> rows[r]]

InsertRow(rows, id, row) ==
  [r \in DOMAIN rows \cup {id} |-> IF r = id THEN row ELSE rows[r]]

Clients == 1..MaxClients

Idle ==
  [pc |-> "idle", op |-> "none", id |-> 0, list_id |-> 0, position |-> NoPosition,
   row |-> EmptyRows, board_id |-> 0, wl |-> EmptyRows, wt |-> EmptyRows, result |-> "none",
   user_id |-> NoProfile, assignee_id |-> NoProfile, gate |-> 0]

LogEntry(b, u, action, entity, t) ==
  [board_id |-> b, user_id |-> u, action_type |-> action,
   entity_type |-> entity, task_id |-> t]

Served(op, id, scope) == [op |-> op, id |-> id, scope |-> scope, result |-> "OK"]

\* ---- initial state: an empty store ------------------------------------------

Init ==
  /\ boards = EmptyRows
  /\ members = {}
  /\ lists = EmptyRows
  /\ tasks = EmptyRows
  /\ log = <<>>
  /\ ids = [board |-> 0, list |-> 0, task |-> 0, newLists |-> 0]
  /\ last = Served("none", 0, 0)
  /\ req = [c \in Clients |-> Idle]
  /\ assignees = {}

\* ---- boardService.createBoard -------------------------------------------------
createBoard(userId) ==
  /\ ids.board < MaxBoards
  /\ Len(log) < MaxLog
  /\ LET b == ids.board + 1
         seeded == [l \in DOMAIN lists \cup {ids.list + i : i \in 1..Len(DefaultLists)} |->
                      IF l \in DOMAIN lists THEN lists[l]
                      ELSE [board_id |-> b, name |-> DefaultLists[l - ids.list],
                            position |-> l - ids.list - 1]]
     IN /\ boards' = InsertRow(boards, b, [owner_id |-> userId, name |-> BoardName])
        /\ lists' = seeded
        /\ log' = Append(log, LogEntry(b, userId, "create", "board", NoTask))
        /\ ids' = [ids EXCEPT !.board = b, !.list = @ + Len(DefaultLists)]
        /\ last' = Served("createBoard", b, 0)
  /\ UNCHANGED <<members, tasks, req, assignees>>

\* ---- boardService.addMember ----------------------------------------------------
\* the code of the error prisma throws on a unique constraint (board_id_user_id)
UniqueViolation == "P2002"

Profiles == Users \cup {"u3"}

MemberRows(ms, b, u) == {m \in ms : m.board_id = b /\ m.user_id = u}

addMemberResult_OwnerAllowed(boardId, userId, newMemberId) ==
  IF boardId \notin DOMAIN boards THEN "NOT_FOUND"
  ELSE IF /\ boards[boardId].owner_id # userId
          /\ \A m \in MemberRows(members, boardId, userId) : m.role # "admin"
       THEN "FORBIDDEN"
  ELSE IF newMemberId \notin Profiles THEN "NOT_FOUND"
  ELSE IF MemberRows(members, boardId, newMemberId) # {} THEN UniqueViolation
  ELSE "OK"

addMemberResult_NoUnique(boardId, userId, newMemberId) ==
  IF boardId \notin DOMAIN boards THEN "NOT_FOUND"
  ELSE IF /\ boards[boardId].owner_id # userId
          /\ \A m \in MemberRows(members, boardId, userId) : m.role # "admin"
       THEN "FORBIDDEN"
  ELSE IF newMemberId \notin Profiles THEN "NOT_FOUND"
  ELSE IF newMemberId = boards[boardId].owner_id THEN "BAD_REQUEST"
  ELSE "OK"

addMemberResult(boardId, userId, newMemberId) ==
  IF boardId \notin DOMAIN boards THEN "NOT_FOUND"
  ELSE IF /\ boards[boardId].owner_id # userId
          /\ \A m \in MemberRows(members, boardId, userId) : m.role # "admin"
       THEN "FORBIDDEN"
  ELSE IF newMemberId \notin Profiles THEN "NOT_FOUND"
  ELSE IF newMemberId = boards[boardId].owner_id THEN "BAD_REQUEST"
  ELSE IF MemberRows(members, boardId, newMemberId) # {} THEN UniqueViolation
  ELSE "OK"

\* role: string = "editor"
RoleOrDefault_Viewer(role) == IF role = NoRole THEN "viewer" ELSE role

RoleOrDefault(role) == IF role = NoRole THEN "editor" ELSE role

addMember(boardId, userId, newMemberId, role) ==
  /\ addMemberResult(boardId, userId, newMemberId) = "OK"
  /\ Len(log) < MaxLog
  /\ members' = members \cup {[board_id |-> boardId, user_id |-> newMemberId,
                                role |-> RoleOrDefault(role)]}
  /\ log' = Append(log, LogEntry(boardId, userId, "create", "board", NoTask))
  /\ last' = Served("addMember", boardId, 0)
  /\ UNCHANGED <<boards, lists, tasks, ids, req, assignees>>

\* ---- listService.createList ---------------------------------------------------
createList(boardId, userId, name) ==
  /\ boardId \in DOMAIN boards
  /\ ids.newLists < MaxNewLists
  /\ Len(log) < MaxLog
  /\ LET l == ids.list + 1
     IN /\ lists' = InsertRow(lists, l, [board_id |-> boardId, name |-> name,
                                         position |-> NextListPosition(lists, boardId)])
        /\ ids' = [ids EXCEPT !.list = l, !.newLists = @ + 1]
        /\ last' = Served("createList", l, boardId)
  /\ log' = Append(log, LogEntry(boardId, userId, "create", "list", NoTask))
  /\ UNCHANGED <<boards, members, tasks, req, assignees>>

\* ---- listService.updateList ---------------------------------------------------
\* list is the row findUnique returned at the start of the request
updateListWhereUp_Exclusive(ls, list, listId, position) ==
  {l \in DOMAIN ls : /\ ls[l].board_id = list.board_id
                     /\ ls[l].position > list.position
                     /\ ls[l].position < position
                     /\ l # listId}

updateListWhereUp(ls, list, listId, position) ==
  {l \in DOMAIN ls : /\ ls[l].board_id = list.board_id
                     /\ ls[l].position > list.position
                     /\ ls[l].position <= position
                     /\ l # listId}

updateListWhereDown_AnyBoard(ls, list, listId, position) ==
  {l \in DOMAIN ls : /\ ls[l].position >= position
                     /\ ls[l].position < list.position
                     /\ l # listId}

updateListWhereDown(ls, list, listId, position) ==
  {l \in DOMAIN ls : /\ ls[l].board_id = list.board_id
                     /\ ls[l].position >= position
                     /\ ls[l].position < list.position
                     /\ l # listId}

\* first statement of the transaction: tx.list.updateMany
updateListShift(ls, list, listId, position) ==
  IF position > list.position
  THEN ShiftPositions(ls, updateListWhereUp(ls, list, listId, position), -1)
  ELSE ShiftPositions(ls, updateListWhereDown(ls, list, listId, position), 1)

\* second statement: tx.list.update (an undefined field is left as it is)
SetList(ls, listId, name, position) ==
  [ls EXCEPT ![listId] =
     [@ EXCEPT !.name = IF name = NoName THEN @ ELSE name,
               !.position = IF position = NoPosition THEN @ ELSE position]]

updateListMoves(list, position) == position # NoPosition /\ position # list.position

updateListRows(ls, listId, name, position) ==
  IF updateListMoves(ls[listId], position)
  THEN SetList(updateListShift(ls, ls[listId], listId, position), listId, name, position)
  ELSE SetList(ls, listId, name, NoPosition)

updateList(listId, userId, name, position) ==
  /\ listId \in DOMAIN lists
  /\ Len(log) < MaxLog
  /\ lists' = updateListRows(lists, listId, name, position)
  /\ log' = Append(log, LogEntry(lists[listId].board_id, userId, "update", "list", NoTask))
  /\ last' = Served("updateList", listId, lists[listId].board_id)
  /\ UNCHANGED <<boards, members, tasks, ids, req, assignees>>

\* ---- listService.deleteList ---------------------------------------------------
deleteListWhere_AnyBoard(ls, list) ==
  {l \in DOMAIN ls : ls[l].position > list.position}

deleteListWhere(ls, list) ==
  {l \in DOMAIN ls : ls[l].board_id = list.board_id /\ ls[l].position > list.position}

\* second statement of the transaction: tx.list.updateMany
deleteListShift(ls, list) == ShiftPositions(ls, deleteListWhere(ls, list), -1)

deleteListRows(ls, listId) == deleteListShift(DeleteRows(ls, {listId}), ls[listId])

\* the schema's cascade from a list to its tasks
CascadeTasks(ts, listId) == DeleteRows(ts, TasksOfList(ts, listId))

\* the schema's cascade from a task to its assignee rows: ts are the tasks left
CascadeAssignees(as, ts) == {a \in as : a.task_id \in DOMAIN ts}

deleteList(listId, userId) ==
  /\ listId \in DOMAIN lists
  /\ Len(log) < MaxLog
  /\ lists' = deleteListRows(lists, listId)
  /\ tasks' = CascadeTasks(tasks, listId)
  /\ log' = Append(log, LogEntry(lists[listId].board_id, userId, "delete", "list", NoTask))
  /\ assignees' = CascadeAssignees(assignees, CascadeTasks(tasks, listId))
  /\ last' = Served("deleteList", listId, lists[listId].board_id)
  /\ UNCHANGED <<boards, members, ids, req>>

\* ---- taskService.createTask ---------------------------------------------------
createTask(userId, list_id) ==
  /\ list_id \in DOMAIN lists
  /\ ids.task < MaxTasks
  /\ Len(log) < MaxLog
  /\ LET t == ids.task + 1
     IN /\ tasks' = InsertRow(tasks, t, [list_id |-> list_id,
                                         position |-> NextTaskPosition(tasks, list_id),
                                         created_by |-> userId])
        /\ ids' = [ids EXCEPT !.task = t]
        /\ log' = Append(log, LogEntry(lists[list_id].board_id, userId, "create", "task", t))
        /\ last' = Served("createTask", t, list_id)
  /\ UNCHANGED <<boards, members, lists, req, assignees>>

\* ---- taskService.deleteTask ---------------------------------------------------
deleteTaskRows(ts, taskId) == DeleteRows(ts, {taskId})

deleteTask_DropsEntries(taskId, userId) ==
  /\ taskId \in DOMAIN tasks
  /\ Len(log) < MaxLog
  /\ log' = Append(SelectSeq(log, LAMBDA e : e.task_id # taskId),
                   LogEntry(lists[tasks[taskId].list_id].board_id, userId,
                            "delete", "task", taskId))
  /\ tasks' = deleteTaskRows(tasks, taskId)
  /\ assignees' = CascadeAssignees(assignees, deleteTaskRows(tasks, taskId))
  /\ last' = Served("deleteTask", taskId, tasks[taskId].list_id)
  /\ UNCHANGED <<boards, members, lists, ids, req>>

deleteTask(taskId, userId) ==
  /\ taskId \in DOMAIN tasks
  /\ Len(log) < MaxLog
  /\ log' = Append(log, LogEntry(lists[tasks[taskId].list_id].board_id, userId,
                                 "delete", "task", taskId))
  /\ tasks' = deleteTaskRows(tasks, taskId)
  /\ assignees' = CascadeAssignees(assignees, deleteTaskRows(tasks, taskId))
  /\ last' = Served("deleteTask", taskId, tasks[taskId].list_id)
  /\ UNCHANGED <<boards, members, lists, ids, req>>

\* ---- taskService.moveTask -----------------------------------------------------
\* task is the row findUnique returned at the start of the request
moveTaskWhereSource_Before(ts, task) ==
  {t \in DOMAIN ts : ts[t].list_id = task.list_id /\ ts[t].position < task.position}

moveTaskWhereSource(ts, task) ==
  {t \in DOMAIN ts : ts[t].list_id = task.list_id /\ ts[t].position > task.position}

moveTaskWhereUp(ts, task, taskId, position) ==
  {t \in DOMAIN ts : /\ ts[t].list_id = task.list_id
                     /\ ts[t].position > task.position
                     /\ ts[t].position <= position
                     /\ t # taskId}

moveTaskWhereDown(ts, task, taskId, position) ==
  {t \in DOMAIN ts : /\ ts[t].list_id = task.list_id
                     /\ ts[t].position >= position
                     /\ ts[t].position < task.position
                     /\ t # taskId}

moveTaskWhereTarget(ts, list_id, position) ==
  {t \in DOMAIN ts : ts[t].list_id = list_id /\ ts[t].position >= position}

\* first statement of the transaction: close the gap in the source list, or
\* shift the tasks between the old and the new position of the same list
moveTaskSource(ts, task, taskId, list_id, position) ==
  IF task.list_id # list_id
  THEN ShiftPositions(ts, moveTaskWhereSource(ts, task), -1)
  ELSE IF position > task.position
  THEN ShiftPositions(ts, moveTaskWhereUp(ts, task, taskId, position), -1)
  ELSE IF position < task.position
  THEN ShiftPositions(ts, moveTaskWhereDown(ts, task, taskId, position), 1)
  ELSE ts

\* second statement, only when moving to a new list: make room in the target
moveTaskTarget(ts, task, list_id, position) ==
  IF task.list_id # list_id
  THEN ShiftPositions(ts, moveTaskWhereTarget(ts, list_id, position), 1)
  ELSE ts

\* last statement: tx.task.update
moveTaskPlace(ts, taskId, list_id, position) ==
  [ts EXCEPT ![taskId] = [@ EXCEPT !.list_id = list_id, !.position = position]]

moveTaskRows(ts, taskId, list_id, position) ==
  moveTaskPlace(
    moveTaskTarget(moveTaskSource(ts, ts[taskId], taskId, list_id, position),
                   ts[taskId], list_id, position),
    taskId, list_id, position)

moveTaskResult_AnyBoard(taskId, list_id) ==
  IF taskId \notin DOMAIN tasks THEN "NOT_FOUND"
  ELSE IF list_id \notin DOMAIN lists THEN "NOT_FOUND"
  ELSE "OK"

moveTaskResult(taskId, list_id) ==
  IF taskId \notin DOMAIN tasks THEN "NOT_FOUND"
  ELSE IF list_id \notin DOMAIN lists THEN "NOT_FOUND"
  ELSE IF lists[list_id].board_id # lists[tasks[taskId].list_id].board_id THEN "BAD_REQUEST"
  ELSE "OK"

moveTask(taskId, userId, list_id, position) ==
  /\ moveTaskResult(taskId, list_id) = "OK"
  /\ Len(log) < MaxLog
  /\ tasks' = moveTaskRows(tasks, taskId, list_id, position)
  /\ log' = Append(log, LogEntry(lists[tasks[taskId].list_id].board_id, userId,
                                 "update", "task", taskId))
  /\ last' = Served("moveTask", taskId, tasks[taskId].list_id)
  /\ UNCHANGED <<boards, members, lists, ids, req, assignees>>

\* ---- callers ------------------------------------------------------------------
\* The services take any authenticated userId (the routes' gate decides who gets
\* this far); positions do not depend on it, so requests are issued by the owner
\* of the board that holds the list or task.
OwnerOfList(l) == IF l \in DOMAIN lists THEN {boards[lists[l].board_id].owner_id} ELSE {}

OwnerOfTask(t) == IF t \in DOMAIN tasks THEN OwnerOfList(tasks[t].list_id) ELSE {}

\* ---- boardService.updateBoard --------------------------------------------------
updateBoardResult_NoOwnerCheck(boardId, userId) ==
  IF boardId \notin DOMAIN boards THEN "NOT_FOUND" ELSE "OK"

updateBoardResult(boardId, userId) ==
  IF boardId \notin DOMAIN boards THEN "NOT_FOUND"
  ELSE IF boards[boardId].owner_id # userId THEN "FORBIDDEN"
  ELSE "OK"

updateBoard(boardId, userId, name) ==
  /\ updateBoardResult(boardId, userId) = "OK"
  /\ Len(log) < MaxLog
  /\ boards' = [boards EXCEPT ![boardId].name = name]
  /\ log' = Append(log, LogEntry(boardId, userId, "update", "board", NoTask))
  /\ last' = Served("updateBoard", boardId, 0)
  /\ UNCHANGED <<members, lists, tasks, ids, req, assignees>>

\* ---- boardService.deleteBoard --------------------------------------------------
deleteBoardResult_AnyUser(boardId, userId) ==
  IF boardId \notin DOMAIN boards THEN "NOT_FOUND" ELSE "OK"

deleteBoardResult(boardId, userId) ==
  IF boardId \notin DOMAIN boards THEN "NOT_FOUND"
  ELSE IF boards[boardId].owner_id # userId THEN "FORBIDDEN"
  ELSE "OK"

\* the schema's cascades from a board to its lists, members and activity log
CascadeLists(ls, boardId) == DeleteRows(ls, ListsOfBoard(ls, boardId))

CascadeMembers(ms, boardId) == {m \in ms : m.board_id # boardId}

RECURSIVE CascadeLog(_, _)
CascadeLog(entries, boardId) ==
  IF entries = <<>> THEN <<>>
  ELSE IF Head(entries).board_id = boardId THEN CascadeLog(Tail(entries), boardId)
  ELSE <<Head(entries)>> \o CascadeLog(Tail(entries), boardId)

TasksOfBoard(ls, ts, boardId) == {t \in DOMAIN ts : ts[t].list_id \in ListsOfBoard(ls, boardId)}

deleteBoard(boardId, userId) ==
  /\ deleteBoardResult(boardId, userId) = "OK"
  /\ boards' = DeleteRows(boards, {boardId})
  /\ lists' = CascadeLists(lists, boardId)
  /\ tasks' = DeleteRows(tasks, TasksOfBoard(lists, tasks, boardId))
  /\ assignees' = CascadeAssignees(assignees, DeleteRows(tasks, TasksOfBoard(lists, tasks, boardId)))
  /\ members' = CascadeMembers(members, boardId)
  /\ log' = CascadeLog(log, boardId)
  /\ last' = Served("deleteBoard", boardId, 0)
  /\ UNCHANGED <<ids, req>>

\* ---- boardService.removeMember -------------------------------------------------
removeMemberResult_NotSelf(boardId, userId, targetUserId) ==
  IF boardId \notin DOMAIN boards THEN "NOT_FOUND"
  ELSE IF /\ boards[boardId].owner_id # userId
          /\ \A m \in MemberRows(members, boardId, userId) : m.role # "admin"
       THEN "FORBIDDEN"
  ELSE IF targetUserId = boards[boardId].owner_id THEN "BAD_REQUEST"
  ELSE IF MemberRows(members, boardId, targetUserId) = {} THEN "NOT_FOUND"
  ELSE "OK"

removeMemberResult(boardId, userId, targetUserId) ==
  IF boardId \notin DOMAIN boards THEN "NOT_FOUND"
  ELSE IF /\ boards[boardId].owner_id # userId
          /\ userId # targetUserId
          /\ \A m \in MemberRows(members, boardId, userId) : m.role # "admin"
       THEN "FORBIDDEN"
  ELSE IF targetUserId = boards[boardId].owner_id THEN "BAD_REQUEST"
  ELSE IF MemberRows(members, boardId, targetUserId) = {} THEN "NOT_FOUND"
  ELSE "OK"

removeMember(boardId, userId, targetUserId) ==
  /\ removeMemberResult(boardId, userId, targetUserId) = "OK"
  /\ Len(log) < MaxLog
  /\ members' = members \ MemberRows(members, boardId, targetUserId)
  /\ log' = Append(log, LogEntry(boardId, userId, "delete", "board", NoTask))
  /\ last' = Served("removeMember", boardId, 0)
  /\ UNCHANGED <<boards, lists, tasks, ids, req, assignees>>

\* ---- taskService.updateTask ----------------------------------------------------
BoardOfTask(t) == lists[tasks[t].list_id].board_id

updateTask(taskId, userId) ==
  /\ taskId \in DOMAIN tasks
  /\ Len(log) < MaxLog
  /\ log' = Append(log, LogEntry(BoardOfTask(taskId), userId, "update", "task", taskId))
  /\ last' = Served("updateTask", taskId, tasks[taskId].list_id)
  /\ UNCHANGED <<boards, members, lists, tasks, ids, req, assignees>>

\* ---- taskService.assignUser ----------------------------------------------------
AssigneeRows(as, t, u) == {a \in as : a.task_id = t /\ a.user_id = u}

assignUserResult_AnyUser(taskId, assigneeId) ==
  IF taskId \notin DOMAIN tasks THEN "NOT_FOUND"
  ELSE IF AssigneeRows(assignees, taskId, assigneeId) # {} THEN "CONFLICT"
  ELSE "OK"

assignUserResult(taskId, assigneeId) ==
  IF taskId \notin DOMAIN tasks THEN "NOT_FOUND"
  ELSE IF /\ boards[BoardOfTask(taskId)].owner_id # assigneeId
          /\ MemberRows(members, BoardOfTask(taskId), assigneeId) = {}
       THEN "BAD_REQUEST"
  ELSE IF AssigneeRows(assignees, taskId, assigneeId) # {} THEN "CONFLICT"
  ELSE "OK"

assignUser(taskId, userId, assigneeId) ==
  /\ assignUserResult(taskId, assigneeId) = "OK"
  /\ Len(log) < MaxLog
  /\ assignees' = assignees \cup {[task_id |-> taskId, user_id |-> assigneeId]}
  /\ log' = Append(log, LogEntry(BoardOfTask(taskId), userId, "create", "task", taskId))
  /\ last' = Served("assignUser", taskId, tasks[taskId].list_id)
  /\ UNCHANGED <<boards, members, lists, tasks, ids, req>>

\* ---- taskService.unassignUser --------------------------------------------------
unassignUserResult_AnyPair(taskId, assigneeId) ==
  IF taskId \notin DOMAIN tasks THEN "NOT_FOUND" ELSE "OK"

unassignUserResult(taskId, assigneeId) ==
  IF taskId \notin DOMAIN tasks THEN "NOT_FOUND"
  ELSE IF AssigneeRows(assignees, taskId, assigneeId) = {} THEN "NOT_FOUND"
  ELSE "OK"

unassignUser(taskId, userId, assigneeId) ==
  /\ unassignUserResult(taskId, assigneeId) = "OK"
  /\ Len(log) < MaxLog
  /\ assignees' = assignees \ AssigneeRows(assignees, taskId, assigneeId)
  /\ log' = Append(log, LogEntry(BoardOfTask(taskId), userId, "delete", "task", taskId))
  /\ last' = Served("unassignUser", taskId, tasks[taskId].list_id)
  /\ UNCHANGED <<boards, members, lists, tasks, ids, req>>

\* ---- boards and lists from an empty store, one request at a time -------------
Next ==
  \/ \E u \in Users : createBoard(u)
  \/ \E b \in DOMAIN boards : \E n \in ListNames : createList(b, boards[b].owner_id, n)
  \/ \E l \in ListIds : \E u \in OwnerOfList(l), p \in Positions \cup {NoPosition} :
        updateList(l, u, NoName, p)
  \/ \E l \in ListIds : \E u \in OwnerOfList(l) : deleteList(l, u)
  \/ \E l \in ListIds : \E u \in OwnerOfList(l) : createTask(u, l)

Spec == Init /\ [][Next]_vars

\* ---- tasks on one freshly created board ---------------------------------------
\* The store right after boardService.createBoard(u) on an empty store.
InitTasks ==
  \E u \in Users :
    /\ boards = InsertRow(EmptyRows, 1, [owner_id |-> u, name |-> BoardName])
    /\ members = {}
    /\ lists = [l \in 1..Len(DefaultLists) |->
                  [board_id |-> 1, name |-> DefaultLists[l], position |-> l - 1]]
    /\ tasks = EmptyRows
    /\ log = <<LogEntry(1, u, "create", "board", NoTask)>>
    /\ ids = [board |-> 1, list |-> Len(DefaultLists), task |-> 0, newLists |-> 0]
    /\ last = Served("createBoard", 1, 0)
    /\ req = [c \in Clients |-> Idle]
    /\ assignees = {}

NextTasks ==
  \/ \E l \in ListIds : \E u \in OwnerOfList(l) : createTask(u, l)
  \/ \E t \in TaskIds : \E u \in OwnerOfTask(t) : deleteTask(t, u)
  \/ \E t \in TaskIds : \E u \in OwnerOfTask(t), l \in ListIds, p \in Positions :
        moveTask(t, u, l, p)
  \/ \E l \in ListIds : \E u \in OwnerOfList(l), p \in Positions :
        updateList(l, u, NoName, p)

SpecTasks == InitTasks /\ [][NextTasks]_vars

\* ---- boards and their members from an empty store --------------------------------
NextBoards ==
  \/ \E u \in Users : createBoard(u)
  \/ \E b \in BoardIds, u \in Users, n \in Users, r \in Roles : addMember(b, u, n, r)
  \/ \E b \in DOMAIN boards : \E n \in ListNames : createList(b, boards[b].owner_id, n)
  \/ \E l \in ListIds : \E u \in OwnerOfList(l) : deleteList(l, u)

SpecBoards == Init /\ [][NextBoards]_vars


\* ---- middleware authorize(...allowedRoles) ---------------------------------------
authorize_NoOwnerBypass(boardId, userId, allowedRoles) ==
  IF boardId \notin DOMAIN boards THEN "NOT_FOUND"
  ELSE IF MemberRows(members, boardId, userId) = {} THEN "FORBIDDEN"
  ELSE IF /\ allowedRoles # {}
          /\ \A m \in MemberRows(members, boardId, userId) : m.role \notin allowedRoles
       THEN "FORBIDDEN"
  ELSE "OK"

authorize(boardId, userId, allowedRoles) ==
  IF boardId \notin DOMAIN boards THEN "NOT_FOUND"
  ELSE IF boards[boardId].owner_id = userId THEN "OK"
  ELSE IF MemberRows(members, boardId, userId) = {} THEN "FORBIDDEN"
  ELSE IF /\ allowedRoles # {}
          /\ \A m \in MemberRows(members, boardId, userId) : m.role \notin allowedRoles
       THEN "FORBIDDEN"
  ELSE "OK"

\* ---- the routers: the authorize gates in front of each handler --------------------
\* routes/boards.ts; deleteBoard has no gate ("ownership check is in service")
BoardRoutes ==
  [getBoard |-> <<{}>>,
   updateBoard |-> <<{"admin"}>>,
   deleteBoard |-> <<>>,
   addMember |-> <<{"admin"}>>,
   removeMember |-> <<{}>>,
   createList |-> <<{"admin", "editor"}>>,
   updateList |-> <<{"admin", "editor"}>>,
   deleteList |-> <<{"admin"}>>,
   getActivity |-> <<{}>>]

\* routes/tasks.ts: router.use(authorize()) and then the route's own gate
TaskRoutes ==
  [listTasks |-> <<{}>>,
   createTask |-> <<{}, {"admin", "editor"}>>,
   getTask |-> <<{}>>,
   updateTask |-> <<{}, {"admin", "editor"}>>,
   deleteTask |-> <<{}, {"admin", "editor"}>>,
   moveTask |-> <<{}, {"admin", "editor"}>>,
   assignUser |-> <<{}, {"admin", "editor"}>>,
   unassignUser |-> <<{}, {"admin", "editor"}>>]

Gates(op) == IF op \in DOMAIN BoardRoutes THEN BoardRoutes[op] ELSE TaskRoutes[op]

\* the first gate that calls next(error) answers the request
RECURSIVE PassGates(_, _, _)
PassGates(gates, boardId, userId) ==
  IF gates = <<>> THEN "OK"
  ELSE IF authorize(boardId, userId, Head(gates)) # "OK"
       THEN authorize(boardId, userId, Head(gates))
  ELSE PassGates(Tail(gates), boardId, userId)

\* a response that is not a served mutation: the error handler's code, or a read
Answered(op, userId, result) ==
  [op |-> op, id |-> 0, scope |-> 0, result |-> result, user |-> userId]

Answer(op, userId, result) ==
  /\ last' = Answered(op, userId, result)
  /\ UNCHANGED <<boards, members, lists, tasks, log, ids, req, assignees>>

\* a request through its route: the gates, then the service, result its outcome
\* and served its step when the outcome is OK
Route(op, boardId, userId, result, served) ==
  IF PassGates(Gates(op), boardId, userId) # "OK"
  THEN Answer(op, userId, PassGates(Gates(op), boardId, userId))
  ELSE IF result # "OK" THEN Answer(op, userId, result)
  ELSE served

Found(rows, id) == IF id \in DOMAIN rows THEN "OK" ELSE "NOT_FOUND"

ReadOps == {"getBoard", "getActivity", "listTasks"}

httpRead(op, boardId, userId) ==
  Route(op, boardId, userId, "OK", Answer(op, userId, "OK"))

httpGetTask(boardId, userId, taskId) ==
  Route("getTask", boardId, userId, Found(tasks, taskId),
        Answer("getTask", userId, "OK"))

httpUpdateBoard(boardId, userId, name) ==
  Route("updateBoard", boardId, userId, updateBoardResult(boardId, userId),
        updateBoard(boardId, userId, name))

httpDeleteBoard(boardId, userId) ==
  Route("deleteBoard", boardId, userId, deleteBoardResult(boardId, userId),
        deleteBoard(boardId, userId))

httpAddMember(boardId, userId, newMemberId, role) ==
  Route("addMember", boardId, userId, addMemberResult(boardId, userId, newMemberId),
        addMember(boardId, userId, newMemberId, role))

httpRemoveMember(boardId, userId, targetUserId) ==
  Route("removeMember", boardId, userId, removeMemberResult(boardId, userId, targetUserId),
        removeMember(boardId, userId, targetUserId))

httpCreateList(boardId, userId, name) ==
  Route("createList", boardId, userId, "OK", createList(boardId, userId, name))

httpUpdateList(boardId, userId, listId, position) ==
  Route("updateList", boardId, userId, Found(lists, listId),
        updateList(listId, userId, NoName, position))

httpDeleteList(boardId, userId, listId) ==
  Route("deleteList", boardId, userId, Found(lists, listId), deleteList(listId, userId))

httpCreateTask(boardId, userId, list_id) ==
  Route("createTask", boardId, userId, Found(lists, list_id), createTask(userId, list_id))

httpUpdateTask(boardId, userId, taskId) ==
  Route("updateTask", boardId, userId, Found(tasks, taskId), updateTask(taskId, userId))

httpDeleteTask(boardId, userId, taskId) ==
  Route("deleteTask", boardId, userId, Found(tasks, taskId), deleteTask(taskId, userId))

httpMoveTask(boardId, userId, taskId, list_id, position) ==
  Route("moveTask", boardId, userId, moveTaskResult(taskId, list_id),
        moveTask(taskId, userId, list_id, position))

httpAssignUser(boardId, userId, taskId, assigneeId) ==
  Route("assignUser", boardId, userId, assignUserResult(taskId, assigneeId),
        assignUser(taskId, userId, assigneeId))

httpUnassignUser(boardId, userId, taskId, assigneeId) ==
  Route("unassignUser", boardId, userId, unassignUserResult(taskId, assigneeId),
        unassignUser(taskId, userId, assigneeId))

\* ---- members and assignees of one board, through the routers ----------------------
\* The store after createBoard(AuthOwner), createTask in its first list and
\* addMember(AuthAdmin, "admin").
AuthOwner == "u1"
AuthAdmin == "u2"
AuthStranger == "u3"

InitMembers ==
  /\ boards = InsertRow(EmptyRows, 1, [owner_id |-> AuthOwner, name |-> BoardName])
  /\ members = {[board_id |-> 1, user_id |-> AuthAdmin, role |-> "admin"]}
  /\ lists = [l \in 1..Len(DefaultLists) |->
                [board_id |-> 1, name |-> DefaultLists[l], position |-> l - 1]]
  /\ tasks = InsertRow(EmptyRows, 1, [list_id |-> 1, position |-> 0, created_by |-> AuthOwner])
  /\ log = <<LogEntry(1, AuthOwner, "create", "board", NoTask),
             LogEntry(1, AuthOwner, "create", "task", 1),
             LogEntry(1, AuthOwner, "create", "board", NoTask)>>
  /\ ids = [board |-> 1, list |-> Len(DefaultLists), task |-> 1, newLists |-> 0]
  /\ last = Served("addMember", 1, 0)
  /\ req = [c \in Clients |-> Idle]
  /\ assignees = {}

NextMembers ==
  \/ \E b \in BoardIds, u \in Profiles : httpRead("getBoard", b, u)
  \/ \E b \in BoardIds, u \in Profiles, n \in BoardNames : httpUpdateBoard(b, u, n)
  \/ \E b \in BoardIds, u \in Profiles : httpDeleteBoard(b, u)
  \/ \E b \in BoardIds, u \in Profiles, n \in Profiles \cup {NoProfile}, r \in Roles \cup {NoRole} :
        httpAddMember(b, u, n, r)
  \/ \E b \in BoardIds, u \in Profiles, n \in Profiles : httpRemoveMember(b, u, n)
  \/ \E b \in BoardIds, u \in Profiles, t \in AuthTasks, a \in Profiles :
        httpAssignUser(b, u, t, a)
  \/ \E b \in BoardIds, u \in Profiles, t \in AuthTasks, a \in Profiles :
        httpUnassignUser(b, u, t, a)

SpecMembers == InitMembers /\ [][NextMembers]_vars

\* ---- every route, by the owner, a member of each role and a stranger --------------
\* The store after createBoard(AuthOwner), createBoard(AuthStranger), createTask in
\* the first list of board 1 and addMember(1, AuthMember, r): AuthStranger owns
\* board 2 and is no member of board 1.
AuthMember == "u2"

InitRoutes ==
  \E r \in Roles :
    /\ boards = [b \in 1..2 |->
                   [owner_id |-> IF b = 1 THEN AuthOwner ELSE AuthStranger, name |-> BoardName]]
    /\ members = {[board_id |-> 1, user_id |-> AuthMember, role |-> r]}
    /\ lists = [l \in 1..(2 * Len(DefaultLists)) |->
                  [board_id |-> IF l <= Len(DefaultLists) THEN 1 ELSE 2,
                   name |-> DefaultLists[IF l <= Len(DefaultLists) THEN l
                                         ELSE l - Len(DefaultLists)],
                   position |-> IF l <= Len(DefaultLists) THEN l - 1
                                ELSE l - Len(DefaultLists) - 1]]
    /\ tasks = InsertRow(EmptyRows, 1, [list_id |-> 1, position |-> 0, created_by |-> AuthOwner])
    /\ log = <<LogEntry(1, AuthOwner, "create", "board", NoTask),
               LogEntry(2, AuthStranger, "create", "board", NoTask),
               LogEntry(1, AuthOwner, "create", "task", 1),
               LogEntry(1, AuthOwner, "create", "board", NoTask)>>
    /\ ids = [board |-> 2, list |-> 2 * Len(DefaultLists), task |-> 1, newLists |-> 0]
    /\ last = Served("addMember", 1, 0)
    /\ req = [c \in Clients |-> Idle]
    /\ assignees = {}

NextRoutes ==
  \/ \E op \in ReadOps, b \in BoardIds, u \in Profiles : httpRead(op, b, u)
  \/ \E b \in BoardIds, u \in Profiles, t \in AuthTasks : httpGetTask(b, u, t)
  \/ \E b \in BoardIds, u \in Profiles, n \in Profiles, r \in Roles : httpAddMember(b, u, n, r)
  \/ \E b \in BoardIds, u \in Profiles, n \in ListNames : httpCreateList(b, u, n)
  \/ \E b \in BoardIds, u \in Profiles, l \in AuthLists, p \in AuthPositions :
        httpUpdateList(b, u, l, p)
  \/ \E b \in BoardIds, u \in Profiles, l \in AuthLists : httpDeleteList(b, u, l)
  \/ \E b \in BoardIds, u \in Profiles, l \in AuthLists : httpCreateTask(b, u, l)
  \/ \E b \in BoardIds, u \in Profiles, t \in AuthTasks : httpUpdateTask(b, u, t)
  \/ \E b \in BoardIds, u \in Profiles, t \in AuthTasks : httpDeleteTask(b, u, t)
  \/ \E b \in BoardIds, u \in Profiles, t \in AuthTasks, l \in AuthLists, p \in AuthPositions :
        httpMoveTask(b, u, t, l, p)
  \/ \E b \in BoardIds, u \in Profiles, t \in AuthTasks, a \in Profiles :
        httpAssignUser(b, u, t, a)
  \/ \E b \in BoardIds, u \in Profiles, t \in AuthTasks, a \in Profiles :
        httpUnassignUser(b, u, t, a)

SpecRoutes == InitRoutes /\ [][NextRoutes]_vars


\* ---- deleting one of two boards ----------------------------------------------------
NextDelete ==
  \/ \E b \in BoardIds, u \in Profiles : httpRead("getBoard", b, u)
  \/ \E b \in BoardIds, u \in Profiles : httpDeleteBoard(b, u)
  \/ \E b \in BoardIds, u \in Profiles, n \in Profiles, r \in Roles : httpAddMember(b, u, n, r)
  \/ \E b \in BoardIds, u \in Profiles, t \in AuthTasks, a \in Profiles :
        httpAssignUser(b, u, t, a)

SpecDelete == InitRoutes /\ [][NextDelete]_vars

\* ---- concurrent requests ----------------------------------------------------------
\* Every await of a handler is a step of its own.  The statements of a
\* prisma.$transaction callback run on tx: they see the committed rows and the
\* transaction's own writes, their writes stay private until COMMIT, and a row
\* written by an open transaction is locked against the others (read committed).
Tombstone == [deleted |-> TRUE]

Overlay(rows, w) ==
  [r \in {x \in DOMAIN rows \cup DOMAIN w : x \in DOMAIN w => w[x] # Tombstone} |->
     IF r \in DOMAIN w THEN w[r] ELSE rows[r]]

Written(before, after) ==
  [r \in {x \in DOMAIN before \cup DOMAIN after :
            x \notin DOMAIN after \/ x \notin DOMAIN before \/ after[x] # before[x]} |->
     IF r \in DOMAIN after THEN after[r] ELSE Tombstone]

Merge(w, d) == [r \in DOMAIN w \cup DOMAIN d |-> IF r \in DOMAIN d THEN d[r] ELSE w[r]]

\* the table as the others see it after a step of a transaction with writes w
Committed_WriteThrough(rows, w, committing) == Overlay(rows, w)

Committed(rows, w, committing) == IF committing THEN Overlay(rows, w) ELSE rows

ViewLists(c) == Overlay(lists, req[c].wl)

ViewTasks(c) == Overlay(tasks, req[c].wt)

LockedLists(c, S) == \E d \in Clients \ {c} : S \cap DOMAIN req[d].wl # {}

LockedTasks(c, S) == \E d \in Clients \ {c} : S \cap DOMAIN req[d].wt # {}

Respond(c, result) ==
  [req EXCEPT ![c].pc = "done", ![c].result = result,
              ![c].wl = EmptyRows, ![c].wt = EmptyRows]

\* a statement of c's transaction that turns the lists it sees into after
WriteLists(c, after, pc) ==
  LET w == Merge(req[c].wl, Written(ViewLists(c), after))
  IN /\ ~LockedLists(c, DOMAIN Written(ViewLists(c), after))
     /\ req' = [req EXCEPT ![c].wl = w, ![c].pc = pc]
     /\ lists' = Committed(lists, w, FALSE)

WriteTasks(c, after, pc) ==
  LET w == Merge(req[c].wt, Written(ViewTasks(c), after))
  IN /\ ~LockedTasks(c, DOMAIN Written(ViewTasks(c), after))
     /\ req' = [req EXCEPT ![c].wt = w, ![c].pc = pc]
     /\ tasks' = Committed(tasks, w, FALSE)

\* listService.updateList: findUnique
beginUpdateList(c, listId, position) ==
  /\ req[c].pc = "idle"
  /\ req' = IF listId \notin DOMAIN lists
            THEN [req EXCEPT ![c] = [Idle EXCEPT !.op = "updateList", !.id = listId,
                                                 !.pc = "done", !.result = "NOT_FOUND"]]
            ELSE [req EXCEPT ![c] = [Idle EXCEPT !.op = "updateList", !.id = listId,
                                                 !.position = position, !.row = lists[listId],
                                                 !.board_id = lists[listId].board_id,
                                                 !.pc = IF updateListMoves(lists[listId], position)
                                                        THEN "shift" ELSE "rename"]]
  /\ UNCHANGED <<boards, members, lists, tasks, log, ids, last, assignees>>

\* tx.list.updateMany
txUpdateListShift(c) ==
  /\ req[c].pc = "shift"
  /\ WriteLists(c, updateListShift(ViewLists(c), req[c].row, req[c].id, req[c].position), "place")
  /\ UNCHANGED <<boards, members, tasks, log, ids, last, assignees>>

\* tx.list.update: throws when the row is gone, and the transaction rolls back
txUpdateListPlace(c) ==
  /\ req[c].pc = "place"
  /\ req[c].op = "updateList"
  /\ IF req[c].id \notin DOMAIN ViewLists(c)
     THEN req' = Respond(c, "INTERNAL_ERROR") /\ UNCHANGED lists
     ELSE /\ ~LockedLists(c, {req[c].id})
          /\ WriteLists(c, SetList(ViewLists(c), req[c].id, NoName, req[c].position), "commit")
  /\ UNCHANGED <<boards, members, tasks, log, ids, last, assignees>>

\* prisma.list.update({data: {name}}) of a request that moves nothing
updateListRename(c) ==
  /\ req[c].pc = "rename"
  /\ IF req[c].id \notin DOMAIN lists
     THEN req' = Respond(c, "INTERNAL_ERROR")
     ELSE /\ ~LockedLists(c, {req[c].id})
          /\ req' = [req EXCEPT ![c].pc = "log"]
  /\ UNCHANGED <<boards, members, lists, tasks, log, ids, last, assignees>>

\* listService.deleteList: findUnique
beginDeleteList(c, listId) ==
  /\ req[c].pc = "idle"
  /\ req' = IF listId \notin DOMAIN lists
            THEN [req EXCEPT ![c] = [Idle EXCEPT !.op = "deleteList", !.id = listId,
                                                 !.pc = "done", !.result = "NOT_FOUND"]]
            ELSE [req EXCEPT ![c] = [Idle EXCEPT !.op = "deleteList", !.id = listId,
                                                 !.row = lists[listId],
                                                 !.board_id = lists[listId].board_id,
                                                 !.pc = "delete"]]
  /\ UNCHANGED <<boards, members, lists, tasks, log, ids, last, assignees>>

\* tx.list.delete, with the cascade to the list's tasks
txDeleteListDelete(c) ==
  /\ req[c].pc = "delete"
  /\ IF req[c].id \notin DOMAIN ViewLists(c)
     THEN req' = Respond(c, "INTERNAL_ERROR") /\ UNCHANGED <<lists, tasks>>
     ELSE LET wl == Merge(req[c].wl, Written(ViewLists(c), DeleteRows(ViewLists(c), {req[c].id})))
              wt == Merge(req[c].wt, Written(ViewTasks(c), CascadeTasks(ViewTasks(c), req[c].id)))
          IN /\ ~LockedLists(c, {req[c].id})
             /\ ~LockedTasks(c, TasksOfList(ViewTasks(c), req[c].id))
             /\ req' = [req EXCEPT ![c].wl = wl, ![c].wt = wt, ![c].pc = "reindex"]
             /\ lists' = Committed(lists, wl, FALSE)
             /\ tasks' = Committed(tasks, wt, FALSE)
  /\ UNCHANGED <<boards, members, log, ids, last, assignees>>

\* tx.list.updateMany
txDeleteListShift(c) ==
  /\ req[c].pc = "reindex"
  /\ WriteLists(c, deleteListShift(ViewLists(c), req[c].row), "commit")
  /\ UNCHANGED <<boards, members, tasks, log, ids, last, assignees>>

\* taskService.moveTask: findUnique of the task
beginMoveTask(c, taskId, list_id, position) ==
  /\ req[c].pc = "idle"
  /\ req' = IF taskId \notin DOMAIN tasks
            THEN [req EXCEPT ![c] = [Idle EXCEPT !.op = "moveTask", !.id = taskId,
                                                 !.pc = "done", !.result = "NOT_FOUND"]]
            ELSE [req EXCEPT ![c] = [Idle EXCEPT !.op = "moveTask", !.id = taskId,
                                                 !.list_id = list_id, !.position = position,
                                                 !.row = tasks[taskId],
                                                 !.board_id = lists[tasks[taskId].list_id].board_id,
                                                 !.pc = "readTarget"]]
  /\ UNCHANGED <<boards, members, lists, tasks, log, ids, last, assignees>>

\* findUnique of the target list and the same-board check
readTargetList(c) ==
  /\ req[c].pc = "readTarget"
  /\ req' = IF req[c].list_id \notin DOMAIN lists THEN Respond(c, "NOT_FOUND")
            ELSE IF lists[req[c].list_id].board_id # req[c].board_id
            THEN Respond(c, "BAD_REQUEST")
            ELSE [req EXCEPT ![c].pc = "source"]
  /\ UNCHANGED <<boards, members, lists, tasks, log, ids, last, assignees>>

txMoveTaskSource(c) ==
  /\ req[c].pc = "source"
  /\ WriteTasks(c, moveTaskSource(ViewTasks(c), req[c].row, req[c].id,
                                  req[c].list_id, req[c].position),
                IF req[c].row.list_id # req[c].list_id THEN "target" ELSE "place")
  /\ UNCHANGED <<boards, members, lists, log, ids, last, assignees>>

txMoveTaskTarget(c) ==
  /\ req[c].pc = "target"
  /\ WriteTasks(c, moveTaskTarget(ViewTasks(c), req[c].row, req[c].list_id, req[c].position),
                "place")
  /\ UNCHANGED <<boards, members, lists, log, ids, last, assignees>>

\* tx.task.update: throws when the task is gone or the target list is (foreign key)
txMoveTaskPlace(c) ==
  /\ req[c].pc = "place"
  /\ req[c].op = "moveTask"
  /\ IF req[c].id \notin DOMAIN ViewTasks(c) \/ req[c].list_id \notin DOMAIN lists
     THEN req' = Respond(c, "INTERNAL_ERROR") /\ UNCHANGED tasks
     ELSE /\ ~LockedTasks(c, {req[c].id})
          /\ ~LockedLists(c, {req[c].list_id})
          /\ WriteTasks(c, moveTaskPlace(ViewTasks(c), req[c].id, req[c].list_id,
                                         req[c].position), "commit")
  /\ UNCHANGED <<boards, members, lists, log, ids, last, assignees>>

\* the end of the $transaction callback: COMMIT
commit(c) ==
  /\ req[c].pc = "commit"
  /\ lists' = Committed(lists, req[c].wl, TRUE)
  /\ tasks' = Committed(tasks, req[c].wt, TRUE)
  /\ req' = [req EXCEPT ![c].pc = "log", ![c].wl = EmptyRows, ![c].wt = EmptyRows]
  /\ assignees' = CascadeAssignees(assignees, Committed(tasks, req[c].wt, TRUE))
  /\ UNCHANGED <<boards, members, log, ids, last>>

\* while another transaction holds row locks, a transaction may time out or be
\* the victim of a deadlock: it rolls back
InTransaction(c) == req[c].pc \in {"shift", "place", "delete", "reindex", "source", "target"}

rollback(c) ==
  /\ InTransaction(c)
  /\ \/ LockedLists(c, DOMAIN lists)
     \/ LockedTasks(c, DOMAIN tasks)
  /\ req' = Respond(c, "ABORTED")
  /\ UNCHANGED <<boards, members, lists, tasks, log, ids, last, assignees>>

\* activityLog.create after the transaction, and the response
writeLog(c) ==
  /\ req[c].pc = "log"
  /\ log' = Append(log,
       IF req[c].op = "moveTask"
       THEN LogEntry(req[c].board_id, ConcOwner, "update", "task", req[c].id)
       ELSE LogEntry(req[c].board_id, ConcOwner,
                     IF req[c].op = "deleteList" THEN "delete" ELSE "update", "list", NoTask))
  /\ last' = Served(req[c].op, req[c].id,
                    IF req[c].op = "moveTask" THEN req[c].row.list_id ELSE req[c].board_id)
  /\ req' = Respond(c, "OK")
  /\ UNCHANGED <<boards, members, lists, tasks, ids, assignees>>

\* The store after createBoard and two createTask in its first list, by ConcOwner.
ConcLists ==
  [l \in 1..Len(DefaultLists) |->
     [board_id |-> 1, name |-> DefaultLists[l], position |-> l - 1]]

ConcTasks ==
  [t \in 1..2 |-> [list_id |-> 1, position |-> t - 1, created_by |-> ConcOwner]]

InitConc ==
  /\ boards = InsertRow(EmptyRows, 1, [owner_id |-> ConcOwner, name |-> BoardName])
  /\ members = {}
  /\ lists = ConcLists
  /\ tasks = ConcTasks
  /\ log = <<LogEntry(1, ConcOwner, "create", "board", NoTask),
             LogEntry(1, ConcOwner, "create", "task", 1),
             LogEntry(1, ConcOwner, "create", "task", 2)>>
  /\ ids = [board |-> 1, list |-> Len(DefaultLists), task |-> 2, newLists |-> 0]
  /\ last = Served("createTask", 2, 1)
  /\ req = [c \in Clients |-> Idle]
  /\ assignees = {}

NextConc ==
  \/ \E c \in Clients, l \in DOMAIN ConcLists, p \in Positions : beginUpdateList(c, l, p)
  \/ \E c \in Clients : txUpdateListShift(c)
  \/ \E c \in Clients : txUpdateListPlace(c)
  \/ \E c \in Clients : updateListRename(c)
  \/ \E c \in Clients, l \in DOMAIN ConcLists : beginDeleteList(c, l)
  \/ \E c \in Clients : txDeleteListDelete(c)
  \/ \E c \in Clients : txDeleteListShift(c)
  \/ \E c \in Clients, t \in DOMAIN ConcTasks, l \in DOMAIN ConcLists, p \in Positions :
        beginMoveTask(c, t, l, p)
  \/ \E c \in Clients : readTargetList(c)
  \/ \E c \in Clients : txMoveTaskSource(c)
  \/ \E c \in Clients : txMoveTaskTarget(c)
  \/ \E c \in Clients : txMoveTaskPlace(c)
  \/ \E c \in Clients : commit(c)
  \/ \E c \in Clients : rollback(c)
  \/ \E c \in Clients : writeLog(c)

SpecConc == InitConc /\ [][NextConc]_vars

\* ---- concurrent taskService.assignUser ----------------------------------------------
\* One step per await of the handler.  task_assignees has the compound unique key
\* task_id_user_id and a foreign key to the task: a create that violates one of
\* them throws the store's error, which carries no statusCode (errorHandler: 500).
ForeignKeyViolation == "P2003"

Fail(c, op, id, result) ==
  [req EXCEPT ![c] = [Idle EXCEPT !.op = op, !.id = id, !.pc = "done", !.result = result]]

\* taskService.assignUser: findUnique of the task
beginAssignUser(c, taskId, userId, assigneeId) ==
  /\ req[c].pc = "idle"
  /\ req' = IF taskId \notin DOMAIN tasks
            THEN Fail(c, "assignUser", taskId, "NOT_FOUND")
            ELSE [req EXCEPT ![c] = [Idle EXCEPT !.op = "assignUser", !.id = taskId,
                                                 !.row = tasks[taskId],
                                                 !.board_id = BoardOfTask(taskId),
                                                 !.user_id = userId,
                                                 !.assignee_id = assigneeId,
                                                 !.pc = "readBoard"]]
  /\ UNCHANGED <<boards, members, lists, tasks, log, ids, last, assignees>>

\* findUnique of the board; board!.owner_id throws a TypeError when it is gone
assignReadBoard(c) ==
  /\ req[c].pc = "readBoard"
  /\ req' = IF req[c].board_id \notin DOMAIN boards THEN Respond(c, "INTERNAL_ERROR")
            ELSE IF boards[req[c].board_id].owner_id = req[c].assignee_id
            THEN [req EXCEPT ![c].pc = "readExisting"]
            ELSE [req EXCEPT ![c].pc = "readMembership"]
  /\ UNCHANGED <<boards, members, lists, tasks, log, ids, last, assignees>>

\* findUnique of the assignee's member row
assignReadMembership(c) ==
  /\ req[c].pc = "readMembership"
  /\ req' = IF MemberRows(members, req[c].board_id, req[c].assignee_id) = {}
            THEN Respond(c, "BAD_REQUEST")
            ELSE [req EXCEPT ![c].pc = "readExisting"]
  /\ UNCHANGED <<boards, members, lists, tasks, log, ids, last, assignees>>

assignReadExisting_LogFirst(c) ==
  /\ req[c].pc = "readExisting"
  /\ log' = Append(log, LogEntry(req[c].board_id, req[c].user_id, "create", "task", req[c].id))
  /\ req' = IF AssigneeRows(assignees, req[c].id, req[c].assignee_id) # {}
            THEN Respond(c, "CONFLICT")
            ELSE [req EXCEPT ![c].pc = "createAssignee"]
  /\ UNCHANGED <<boards, members, lists, tasks, ids, last, assignees>>

\* findUnique of the (task, user) pair
assignReadExisting(c) ==
  /\ req[c].pc = "readExisting"
  /\ req' = IF AssigneeRows(assignees, req[c].id, req[c].assignee_id) # {}
            THEN Respond(c, "CONFLICT")
            ELSE [req EXCEPT ![c].pc = "createAssignee"]
  /\ UNCHANGED <<boards, members, lists, tasks, log, ids, last, assignees>>

\* taskAssignee.create
assignCreate(c) ==
  /\ req[c].pc = "createAssignee"
  /\ IF req[c].id \notin DOMAIN tasks
     THEN req' = Respond(c, ForeignKeyViolation) /\ UNCHANGED assignees
     ELSE IF AssigneeRows(assignees, req[c].id, req[c].assignee_id) # {}
     THEN req' = Respond(c, UniqueViolation) /\ UNCHANGED assignees
     ELSE /\ assignees' = assignees \cup {[task_id |-> req[c].id,
                                            user_id |-> req[c].assignee_id]}
          /\ req' = [req EXCEPT ![c].pc = "logAssign"]
  /\ UNCHANGED <<boards, members, lists, tasks, log, ids, last>>

\* activityLog.create and the response
assignLog(c) ==
  /\ req[c].pc = "logAssign"
  /\ log' = Append(log, LogEntry(req[c].board_id, req[c].user_id, "create", "task", req[c].id))
  /\ last' = Served("assignUser", req[c].id, req[c].row.list_id)
  /\ req' = [req EXCEPT ![c].pc = "done", ![c].result = "OK"]
  /\ UNCHANGED <<boards, members, lists, tasks, ids, assignees>>

\* taskService.unassignUser: findUnique of the task
beginUnassignUser(c, taskId, userId, assigneeId) ==
  /\ req[c].pc = "idle"
  /\ req' = IF taskId \notin DOMAIN tasks
            THEN Fail(c, "unassignUser", taskId, "NOT_FOUND")
            ELSE [req EXCEPT ![c] = [Idle EXCEPT !.op = "unassignUser", !.id = taskId,
                                                 !.row = tasks[taskId],
                                                 !.board_id = BoardOfTask(taskId),
                                                 !.user_id = userId,
                                                 !.assignee_id = assigneeId,
                                                 !.pc = "readAssignment"]]
  /\ UNCHANGED <<boards, members, lists, tasks, log, ids, last, assignees>>

\* findUnique of the (task, user) pair
unassignReadAssignment(c) ==
  /\ req[c].pc = "readAssignment"
  /\ req' = IF AssigneeRows(assignees, req[c].id, req[c].assignee_id) = {}
            THEN Respond(c, "NOT_FOUND")
            ELSE [req EXCEPT ![c].pc = "deleteAssignee"]
  /\ UNCHANGED <<boards, members, lists, tasks, log, ids, last, assignees>>

RecordNotFound == "P2025"

\* taskAssignee.delete({where: {id}}): throws when the row is gone
unassignDelete(c) ==
  /\ req[c].pc = "deleteAssignee"
  /\ IF AssigneeRows(assignees, req[c].id, req[c].assignee_id) = {}
     THEN req' = Respond(c, RecordNotFound) /\ UNCHANGED assignees
     ELSE /\ assignees' = assignees \ AssigneeRows(assignees, req[c].id, req[c].assignee_id)
          /\ req' = [req EXCEPT ![c].pc = "logUnassign"]
  /\ UNCHANGED <<boards, members, lists, tasks, log, ids, last>>

unassignLog(c) ==
  /\ req[c].pc = "logUnassign"
  /\ log' = Append(log, LogEntry(req[c].board_id, req[c].user_id, "delete", "task", req[c].id))
  /\ last' = Served("unassignUser", req[c].id, req[c].row.list_id)
  /\ req' = [req EXCEPT ![c].pc = "done", ![c].result = "OK"]
  /\ UNCHANGED <<boards, members, lists, tasks, ids, assignees>>

\* Two clients assign and unassign on the store of InitMembers, as its owner.
NextAssign ==
  \/ \E c \in Clients, t \in AuthTasks, a \in Profiles : beginAssignUser(c, t, AuthOwner, a)
  \/ \E c \in Clients : assignReadBoard(c)
  \/ \E c \in Clients : assignReadMembership(c)
  \/ \E c \in Clients : assignReadExisting(c)
  \/ \E c \in Clients : assignCreate(c)
  \/ \E c \in Clients : assignLog(c)
  \/ \E c \in Clients, t \in AuthTasks, a \in Profiles : beginUnassignUser(c, t, AuthOwner, a)
  \/ \E c \in Clients : unassignReadAssignment(c)
  \/ \E c \in Clients : unassignDelete(c)
  \/ \E c \in Clients : unassignLog(c)

SpecAssign == InitMembers /\ [][NextAssign]_vars

\* ---- concurrent createList, createTask and deleteTask -------------------------------
\* These handlers open no transaction: every await is a step of its own, and each
\* write is committed when its statement returns.  An activity-log row refers to
\* its board and, when it has one, to its task (activityService includes both).
Begin(c, op, id, boardId, userId) ==
  [req EXCEPT ![c] = [Idle EXCEPT !.op = op, !.id = id, !.board_id = boardId,
                                  !.user_id = userId]]

\* listService.createList: findUnique of the board
beginCreateList(c, boardId, userId) ==
  /\ req[c].pc = "idle"
  /\ req' = IF boardId \notin DOMAIN boards
            THEN Fail(c, "createList", 0, "NOT_FOUND")
            ELSE [Begin(c, "createList", 0, boardId, userId) EXCEPT ![c].pc = "readLastList"]
  /\ UNCHANGED <<boards, members, lists, tasks, log, ids, last, assignees>>

\* list.findFirst({orderBy: position desc}) and nextPosition
createListReadLast(c) ==
  /\ req[c].pc = "readLastList"
  /\ req' = [req EXCEPT ![c].position = NextListPosition(lists, req[c].board_id),
                        ![c].pc = "createList"]
  /\ UNCHANGED <<boards, members, lists, tasks, log, ids, last, assignees>>

\* list.create
createListCreate(c) ==
  /\ req[c].pc = "createList"
  /\ IF req[c].board_id \notin DOMAIN boards
     THEN req' = Respond(c, ForeignKeyViolation) /\ UNCHANGED <<lists, ids>>
     ELSE /\ lists' = InsertRow(lists, ids.list + 1,
                                [board_id |-> req[c].board_id, name |-> "X",
                                 position |-> req[c].position])
          /\ ids' = [ids EXCEPT !.list = @ + 1, !.newLists = @ + 1]
          /\ req' = [req EXCEPT ![c].id = ids.list + 1, ![c].pc = "logCreateList"]
  /\ UNCHANGED <<boards, members, tasks, log, last, assignees>>

\* activityLog.create and return
createListLog(c) ==
  /\ req[c].pc = "logCreateList"
  /\ IF req[c].board_id \notin DOMAIN boards
     THEN req' = Respond(c, ForeignKeyViolation) /\ UNCHANGED <<log, last>>
     ELSE /\ log' = Append(log, LogEntry(req[c].board_id, req[c].user_id,
                                         "create", "list", NoTask))
          /\ last' = Served("createList", req[c].id, req[c].board_id)
          /\ req' = Respond(c, "OK")
  /\ UNCHANGED <<boards, members, lists, tasks, ids, assignees>>

\* taskService.createTask: findUnique of the list
beginCreateTask(c, userId, list_id) ==
  /\ req[c].pc = "idle"
  /\ req' = IF list_id \notin DOMAIN lists
            THEN Fail(c, "createTask", 0, "NOT_FOUND")
            ELSE [Begin(c, "createTask", 0, lists[list_id].board_id, userId)
                    EXCEPT ![c].list_id = list_id, ![c].pc = "readLastTask"]
  /\ UNCHANGED <<boards, members, lists, tasks, log, ids, last, assignees>>

\* task.findFirst({orderBy: position desc}) and nextPosition
createTaskReadLast(c) ==
  /\ req[c].pc = "readLastTask"
  /\ req' = [req EXCEPT ![c].position = NextTaskPosition(tasks, req[c].list_id),
                        ![c].pc = "createTask"]
  /\ UNCHANGED <<boards, members, lists, tasks, log, ids, last, assignees>>

\* task.create
createTaskCreate(c) ==
  /\ req[c].pc = "createTask"
  /\ IF req[c].list_id \notin DOMAIN lists
     THEN req' = Respond(c, ForeignKeyViolation) /\ UNCHANGED <<tasks, ids>>
     ELSE /\ tasks' = InsertRow(tasks, ids.task + 1,
                                [list_id |-> req[c].list_id, position |-> req[c].position,
                                 created_by |-> req[c].user_id])
          /\ ids' = [ids EXCEPT !.task = @ + 1]
          /\ req' = [req EXCEPT ![c].id = ids.task + 1, ![c].pc = "logCreateTask"]
  /\ UNCHANGED <<boards, members, lists, log, last, assignees>>

\* activityLog.create with the new task's id, and return
createTaskLog(c) ==
  /\ req[c].pc = "logCreateTask"
  /\ IF req[c].id \notin DOMAIN tasks \/ req[c].board_id \notin DOMAIN boards
     THEN req' = Respond(c, ForeignKeyViolation) /\ UNCHANGED <<log, last>>
     ELSE /\ log' = Append(log, LogEntry(req[c].board_id, req[c].user_id,
                                         "create", "task", req[c].id))
          /\ last' = Served("createTask", req[c].id, req[c].list_id)
          /\ req' = Respond(c, "OK")
  /\ UNCHANGED <<boards, members, lists, tasks, ids, assignees>>

\* taskService.deleteTask: findUnique of the task
beginDeleteTask(c, taskId, userId) ==
  /\ req[c].pc = "idle"
  /\ req' = IF taskId \notin DOMAIN tasks
            THEN Fail(c, "deleteTask", taskId, "NOT_FOUND")
            ELSE [Begin(c, "deleteTask", taskId, BoardOfTask(taskId), userId)
                    EXCEPT ![c].row = tasks[taskId], ![c].pc = "logDeleteTask"]
  /\ UNCHANGED <<boards, members, lists, tasks, log, ids, last, assignees>>

\* activityLog.create, before the delete
deleteTaskLog(c) ==
  /\ req[c].pc = "logDeleteTask"
  /\ IF req[c].id \notin DOMAIN tasks \/ req[c].board_id \notin DOMAIN boards
     THEN req' = Respond(c, ForeignKeyViolation) /\ UNCHANGED log
     ELSE /\ log' = Append(log, LogEntry(req[c].board_id, req[c].user_id,
                                         "delete", "task", req[c].id))
          /\ req' = [req EXCEPT ![c].pc = "deleteTask"]
  /\ UNCHANGED <<boards, members, lists, tasks, ids, last, assignees>>

\* task.delete: throws when the row is gone
deleteTaskDelete(c) ==
  /\ req[c].pc = "deleteTask"
  /\ IF req[c].id \notin DOMAIN tasks
     THEN req' = Respond(c, RecordNotFound) /\ UNCHANGED <<tasks, assignees, last>>
     ELSE /\ tasks' = deleteTaskRows(tasks, req[c].id)
          /\ assignees' = CascadeAssignees(assignees, deleteTaskRows(tasks, req[c].id))
          /\ last' = Served("deleteTask", req[c].id, req[c].row.list_id)
          /\ req' = Respond(c, "OK")
  /\ UNCHANGED <<boards, members, lists, log, ids>>

\* Two clients create lists and tasks and delete tasks on the store of
\* InitMembers, as its owner.
NextHandlers ==
  \/ \E c \in Clients : beginCreateList(c, 1, AuthOwner)
  \/ \E c \in Clients : createListReadLast(c)
  \/ \E c \in Clients : createListCreate(c)
  \/ \E c \in Clients : createListLog(c)
  \/ \E c \in Clients, l \in AuthLists : beginCreateTask(c, AuthOwner, l)
  \/ \E c \in Clients : createTaskReadLast(c)
  \/ \E c \in Clients : createTaskCreate(c)
  \/ \E c \in Clients : createTaskLog(c)
  \/ \E c \in Clients, t \in AuthTasks : beginDeleteTask(c, t, AuthOwner)
  \/ \E c \in Clients : deleteTaskLog(c)
  \/ \E c \in Clients : deleteTaskDelete(c)

SpecHandlers == InitMembers /\ [][NextHandlers]_vars

\* ---- the activity log across deletions ------------------------------------------------
\* The store of InitRoutes, with the requests that delete tasks, lists and boards
\* next to those that create, move and assign.
NextLog ==
  \/ \E b \in BoardIds, u \in Profiles : httpDeleteBoard(b, u)
  \/ \E b \in BoardIds, u \in Profiles, l \in AuthLists : httpDeleteList(b, u, l)
  \/ \E b \in BoardIds, u \in Profiles, t \in AuthTasks : httpDeleteTask(b, u, t)
  \/ \E b \in BoardIds, u \in Profiles, l \in AuthLists : httpCreateTask(b, u, l)
  \/ \E b \in BoardIds, u \in Profiles, t \in AuthTasks : httpUpdateTask(b, u, t)
  \/ \E b \in BoardIds, u \in Profiles, t \in AuthTasks, a \in Profiles :
        httpAssignUser(b, u, t, a)

SpecLog == InitRoutes /\ [][NextLog]_vars

\* ---- concurrent requests through the routers: the gates, then the service ------------
\* authorize reads the board and the caller's member row with two awaits, the
\* service that follows reads again and writes: each await is a step of its own.
ServiceOrNextGate(c) ==
  IF req[c].gate < Len(Gates(req[c].op))
  THEN [req EXCEPT ![c].gate = @ + 1, ![c].pc = "gateBoard"]
  ELSE [req EXCEPT ![c].pc = "service"]

\* the request arrives at the first middleware of its route
beginRequest(c, op, boardId, userId, id, targetId) ==
  /\ req[c].pc = "idle"
  /\ Gates(op) # <<>>
  /\ req' = [req EXCEPT ![c] = [Idle EXCEPT !.op = op, !.id = id, !.board_id = boardId,
                                            !.user_id = userId, !.assignee_id = targetId,
                                            !.gate = 1, !.pc = "gateBoard"]]
  /\ UNCHANGED <<boards, members, lists, tasks, log, ids, last, assignees>>

\* authorize: findUnique of the board, and the owner's bypass
gateReadBoard(c) ==
  /\ req[c].pc = "gateBoard"
  /\ req' = IF req[c].board_id \notin DOMAIN boards THEN Respond(c, "NOT_FOUND")
            ELSE IF boards[req[c].board_id].owner_id = req[c].user_id
            THEN ServiceOrNextGate(c)
            ELSE [req EXCEPT ![c].pc = "gateMember"]
  /\ UNCHANGED <<boards, members, lists, tasks, log, ids, last, assignees>>

\* authorize: findUnique of the caller's member row, and the role test
gateReadMember(c) ==
  /\ req[c].pc = "gateMember"
  /\ LET rows == MemberRows(members, req[c].board_id, req[c].user_id)
         allowedRoles == Gates(req[c].op)[req[c].gate]
     IN req' = IF rows = {} THEN Respond(c, "FORBIDDEN")
               ELSE IF allowedRoles # {} /\ \A m \in rows : m.role \notin allowedRoles
               THEN Respond(c, "FORBIDDEN")
               ELSE ServiceOrNextGate(c)
  /\ UNCHANGED <<boards, members, lists, tasks, log, ids, last, assignees>>

\* taskService.assignUser behind its gates: findUnique of the task
enterAssignUser(c) ==
  /\ req[c].pc = "service"
  /\ req[c].op = "assignUser"
  /\ req' = IF req[c].id \notin DOMAIN tasks THEN Respond(c, "NOT_FOUND")
            ELSE [req EXCEPT ![c].row = tasks[req[c].id],
                             ![c].board_id = BoardOfTask(req[c].id),
                             ![c].pc = "readBoard"]
  /\ UNCHANGED <<boards, members, lists, tasks, log, ids, last, assignees>>

\* boardService.removeMember behind its gate: findUnique of the board; the
\* owner test follows without an await when the requester is not looked up
enterRemoveMember(c) ==
  /\ req[c].pc = "service"
  /\ req[c].op = "removeMember"
  /\ req' = IF req[c].board_id \notin DOMAIN boards THEN Respond(c, "NOT_FOUND")
            ELSE LET board == boards[req[c].board_id]
                 IN IF board.owner_id # req[c].user_id /\ req[c].user_id # req[c].assignee_id
                    THEN [req EXCEPT ![c].row = board, ![c].pc = "readRequester"]
                    ELSE IF req[c].assignee_id = board.owner_id
                    THEN Respond(c, "BAD_REQUEST")
                    ELSE [req EXCEPT ![c].row = board, ![c].pc = "readTargetMember"]
  /\ UNCHANGED <<boards, members, lists, tasks, log, ids, last, assignees>>

\* findUnique of the requester's member row, then the owner test
removeReadRequester(c) ==
  /\ req[c].pc = "readRequester"
  /\ req' = IF \A m \in MemberRows(members, req[c].board_id, req[c].user_id) : m.role # "admin"
            THEN Respond(c, "FORBIDDEN")
            ELSE IF req[c].assignee_id = req[c].row.owner_id
            THEN Respond(c, "BAD_REQUEST")
            ELSE [req EXCEPT ![c].pc = "readTargetMember"]
  /\ UNCHANGED <<boards, members, lists, tasks, log, ids, last, assignees>>

\* findUnique of the target's member row
removeReadTarget(c) ==
  /\ req[c].pc = "readTargetMember"
  /\ req' = IF MemberRows(members, req[c].board_id, req[c].assignee_id) = {}
            THEN Respond(c, "NOT_FOUND")
            ELSE [req EXCEPT ![c].pc = "deleteMember"]
  /\ UNCHANGED <<boards, members, lists, tasks, log, ids, last, assignees>>

\* boardMember.delete({where: {id}}): throws when the row is gone
removeDelete(c) ==
  /\ req[c].pc = "deleteMember"
  /\ IF MemberRows(members, req[c].board_id, req[c].assignee_id) = {}
     THEN req' = Respond(c, RecordNotFound) /\ UNCHANGED members
     ELSE /\ members' = members \ MemberRows(members, req[c].board_id, req[c].assignee_id)
          /\ req' = [req EXCEPT ![c].pc = "logRemove"]
  /\ UNCHANGED <<boards, lists, tasks, log, ids, last, assignees>>

\* activityLog.create and the response
removeLog(c) ==
  /\ req[c].pc = "logRemove"
  /\ log' = Append(log, LogEntry(req[c].board_id, req[c].user_id, "delete", "board", NoTask))
  /\ last' = Served("removeMember", req[c].board_id, 0)
  /\ req' = Respond(c, "OK")
  /\ UNCHANGED <<boards, members, lists, tasks, ids, assignees>>

\* Two clients, each any user, remove a member of board 1 or assign a user to
\* its task, on the store of InitMembers.
NextRevoke ==
  \/ \E c \in Clients, u \in Profiles, n \in Profiles :
        beginRequest(c, "removeMember", 1, u, 0, n)
  \/ \E c \in Clients, u \in Profiles, a \in Profiles :
        beginRequest(c, "assignUser", 1, u, 1, a)
  \/ \E c \in Clients : gateReadBoard(c)
  \/ \E c \in Clients : gateReadMember(c)
  \/ \E c \in Clients : enterAssignUser(c)
  \/ \E c \in Clients : assignReadBoard(c)
  \/ \E c \in Clients : assignReadMembership(c)
  \/ \E c \in Clients : assignReadExisting(c)
  \/ \E c \in Clients : assignCreate(c)
  \/ \E c \in Clients : assignLog(c)
  \/ \E c \in Clients : enterRemoveMember(c)
  \/ \E c \in Clients : removeReadRequester(c)
  \/ \E c \in Clients : removeReadTarget(c)
  \/ \E c \in Clients : removeDelete(c)
  \/ \E c \in Clients : removeLog(c)

SpecRevoke == InitMembers /\ [][NextRevoke]_vars

\* ---- tasks of two boards ----------------------------------------------------------------
\* The store after createBoard(AuthOwner), createBoard(AuthStranger) and createTask
\* in the first list of board 1.  MoveLists: two lists of board 1, the first list
\* of board 2 and a list that does not exist.
MoveLists == {1, 2, Len(DefaultLists) + 1, 2 * Len(DefaultLists) + 1}

MovePositions == {0, 1}

InitMove ==
  /\ boards = [b \in 1..2 |->
                 [owner_id |-> IF b = 1 THEN AuthOwner ELSE AuthStranger, name |-> BoardName]]
  /\ members = {}
  /\ lists = [l \in 1..(2 * Len(DefaultLists)) |->
                [board_id |-> IF l <= Len(DefaultLists) THEN 1 ELSE 2,
                 name |-> DefaultLists[IF l <= Len(DefaultLists) THEN l
                                       ELSE l - Len(DefaultLists)],
                 position |-> IF l <= Len(DefaultLists) THEN l - 1
                              ELSE l - Len(DefaultLists) - 1]]
  /\ tasks = InsertRow(EmptyRows, 1, [list_id |-> 1, position |-> 0, created_by |-> AuthOwner])
  /\ log = <<LogEntry(1, AuthOwner, "create", "board", NoTask),
             LogEntry(2, AuthStranger, "create", "board", NoTask),
             LogEntry(1, AuthOwner, "create", "task", 1)>>
  /\ ids = [board |-> 2, list |-> 2 * Len(DefaultLists), task |-> 1, newLists |-> 0]
  /\ last = Served("createTask", 1, 1)
  /\ req = [c \in Clients |-> Idle]
  /\ assignees = {}

NextMove ==
  \/ \E b \in BoardIds, u \in {AuthOwner, AuthStranger}, l \in MoveLists :
        httpCreateTask(b, u, l)
  \/ \E b \in BoardIds, u \in {AuthOwner, AuthStranger}, t \in AuthTasks,
        l \in MoveLists, p \in MovePositions :
        httpMoveTask(b, u, t, l, p)
  \/ \E b \in BoardIds, u \in {AuthOwner, AuthStranger}, t \in AuthTasks :
        httpUpdateTask(b, u, t)

SpecMove == InitMove /\ [][NextMove]_vars

\* ---- reordering next to another board ---------------------------------------------------
\* The store of InitMove, with the requests that change positions: lists are
\* reordered and deleted, tasks created, moved and edited, on either board.
\* FrameLists: two lists of board 1 and the first list of board 2;
\* FramePositions: no position in the body, or one of the first two positions.
FrameLists == {1, 2, Len(DefaultLists) + 1}

FramePositions == {NoPosition, 0, 1}

NextFrame ==
  \/ \E b \in BoardIds, u \in {AuthOwner, AuthStranger}, l \in FrameLists,
        p \in FramePositions :
        httpUpdateList(b, u, l, p)
  \/ \E b \in BoardIds, u \in {AuthOwner, AuthStranger}, l \in FrameLists :
        httpDeleteList(b, u, l)
  \/ \E b \in BoardIds, u \in {AuthOwner, AuthStranger}, l \in FrameLists :
        httpCreateTask(b, u, l)
  \/ \E b \in BoardIds, u \in {AuthOwner, AuthStranger}, t \in AuthTasks,
        l \in FrameLists, p \in MovePositions :
        httpMoveTask(b, u, t, l, p)
  \/ \E b \in BoardIds, u \in {AuthOwner, AuthStranger}, t \in AuthTasks :
        httpUpdateTask(b, u, t)

SpecFrame == InitMove /\ [][NextFrame]_vars

\* ============================================================================
\* Properties
\* ============================================================================
DenseLists(ls, b) ==
  {ls[l].position : l \in ListsOfBoard(ls, b)} = 0..(Cardinality(ListsOfBoard(ls, b)) - 1)

DenseTasks(ts, l) ==
  {ts[t].position : t \in TasksOfList(ts, l)} = 0..(Cardinality(TasksOfList(ts, l)) - 1)

\* The siblings S of a dense scope in position order, as a sequence of row ids.
OrderOf(rows, S) ==
  [i \in 1..Cardinality(S) |-> CHOOSE r \in S : rows[r].position = i - 1]

RemoveFrom(seq, x) == SelectSeq(seq, LAMBDA y : y # x)

InsertAt(seq, i, x) == SubSeq(seq, 1, i) \o <<x>> \o SubSeq(seq, i + 1, Len(seq))

\* after is before with x taken out of the scope S and put back at index new:
\* positions follow the new order, nothing else in any row changes.
Reinserted(before, after, S, x, new) ==
  LET order == InsertAt(RemoveFrom(OrderOf(before, S), x), new, x)
  IN /\ DOMAIN after = DOMAIN before
     /\ \A i \in 1..Len(order) :
          after[order[i]] = [before[order[i]] EXCEPT !.position = i - 1]
     /\ \A r \in DOMAIN before \ S : after[r] = before[r]

\* the same, sibling by sibling
ShiftedWithin(before, after, S, x, new) ==
  LET old == before[x].position
  IN /\ after[x].position = new
     /\ \A r \in S \ {x} :
          after[r].position =
            IF new > old /\ old < before[r].position /\ before[r].position <= new
            THEN before[r].position - 1
            ELSE IF new < old /\ new <= before[r].position /\ before[r].position < old
            THEN before[r].position + 1
            ELSE before[r].position
     /\ \A r1, r2 \in S \ {x} :
          before[r1].position < before[r2].position => after[r1].position < after[r2].position

\* C1: after any sequence of createBoard, createList, deleteList and updateList
\* (any requested position >= 0), the positions of every board's lists are
\* exactly 0..n-1.
C1_ListPositionsDense == \A b \in DOMAIN boards : DenseLists(lists, b)

\* C2: after any sequence of createTask, deleteTask and moveTask (any requested
\* position >= 0), the positions of every list's tasks are exactly 0..n-1.
C2_TaskPositionsDense == \A l \in DOMAIN lists : DenseTasks(tasks, l)

ClosedGap(ts, t) ==
  [s \in DOMAIN ts \ {t} |->
     IF ts[s].list_id = ts[t].list_id /\ ts[s].position > ts[t].position
     THEN [ts[s] EXCEPT !.position = @ - 1]
     ELSE ts[s]]

\* C3: deleteTask removes the task and decrements the position of every task
\* of the same list that was behind it, so a dense list stays dense.
C3_DeleteTaskClosesGap ==
  [][\A t \in DOMAIN tasks : \A u \in Users :
       deleteTask(t, u) =>
         /\ tasks' = ClosedGap(tasks, t)
         /\ DenseTasks(tasks, tasks[t].list_id) => DenseTasks(tasks', tasks[t].list_id)]_vars

\* C4: a move within one scope (updateList with a position; moveTask to the
\* task's own list) to a position in 0..n-1 of a dense scope removes the element
\* and re-inserts it at that index: the siblings in between shift by one towards
\* the old position, the others stay, their relative order is kept.
C4_MoveWithinScope ==
  [][/\ \A l \in DOMAIN lists : \A u \in Users, p \in Positions :
          LET S == ListsOfBoard(lists, lists[l].board_id)
          IN updateList(l, u, NoName, p) /\ DenseLists(lists, lists[l].board_id)
               /\ p < Cardinality(S)
             => /\ Reinserted(lists, lists', S, l, p)
                /\ ShiftedWithin(lists, lists', S, l, p)
     /\ \A t \in DOMAIN tasks : \A u \in Users, p \in Positions :
          LET S == TasksOfList(tasks, tasks[t].list_id)
          IN moveTask(t, u, tasks[t].list_id, p) /\ DenseTasks(tasks, tasks[t].list_id)
               /\ p < Cardinality(S)
             => /\ Reinserted(tasks, tasks', S, t, p)
                /\ ShiftedWithin(tasks, tasks', S, t, p)]_vars

\* a list of three dense tasks whose first-created task was moved behind the others
C4_Witness ==
  /\ last.op = "moveTask"
  /\ last.id \in DOMAIN tasks
  /\ tasks[last.id].list_id = last.scope
  /\ Cardinality(TasksOfList(tasks, last.scope)) = 3
  /\ DenseTasks(tasks, last.scope)
  /\ \E t \in TasksOfList(tasks, last.scope) : t > last.id /\ tasks[t].position < tasks[last.id].position

\* C5: moveTask to a different list T of the board at position new decrements
\* the source tasks behind the old position, increments the target tasks at or
\* behind new, and puts the task at (T, new); a dense source stays dense, and a
\* dense target stays dense when new <= |T|.
C5_MoveAcrossLists ==
  [][\A t \in DOMAIN tasks : \A l \in DOMAIN lists \ {tasks[t].list_id} :
       \A u \in Users, p \in Positions :
         LET S == tasks[t].list_id
             old == tasks[t].position
         IN moveTask(t, u, l, p) =>
              /\ DOMAIN tasks' = DOMAIN tasks
              /\ tasks'[t] = [tasks[t] EXCEPT !.list_id = l, !.position = p]
              /\ \A s \in DOMAIN tasks \ {t} :
                   tasks'[s] =
                     IF tasks[s].list_id = S /\ tasks[s].position > old
                     THEN [tasks[s] EXCEPT !.position = @ - 1]
                     ELSE IF tasks[s].list_id = l /\ tasks[s].position >= p
                     THEN [tasks[s] EXCEPT !.position = @ + 1]
                     ELSE tasks[s]
              /\ DenseTasks(tasks, S) => DenseTasks(tasks', S)
              /\ DenseTasks(tasks, l) /\ p <= Cardinality(TasksOfList(tasks, l))
                   => DenseTasks(tasks', l)]_vars

\* a task moved out of a list that keeps a task, into a list that held one
C5_Witness ==
  /\ last.op = "moveTask"
  /\ last.id \in DOMAIN tasks
  /\ tasks[last.id].list_id # last.scope
  /\ TasksOfList(tasks, last.scope) # {}
  /\ DenseTasks(tasks, last.scope)
  /\ Cardinality(TasksOfList(tasks, tasks[last.id].list_id)) = 2
  /\ tasks[last.id].position = 0
  /\ DenseTasks(tasks, tasks[last.id].list_id)

\* C6: deleteList removes the list with all of its tasks and decrements the
\* position of every list of the same board that was behind it.
C6_DeleteListReindexes ==
  [][\A l \in DOMAIN lists : \A u \in Users :
       deleteList(l, u) =>
         /\ DOMAIN lists' = DOMAIN lists \ {l}
         /\ \A s \in DOMAIN lists \ {l} :
              lists'[s] =
                IF lists[s].board_id = lists[l].board_id /\ lists[s].position > lists[l].position
                THEN [lists[s] EXCEPT !.position = @ - 1]
                ELSE lists[s]
         /\ DOMAIN tasks' = DOMAIN tasks \ TasksOfList(tasks, l)
         /\ \A t \in DOMAIN tasks' : tasks'[t] = tasks[t]]_vars

\* the example: lists at 0,1,2 and X at 3; the list at 1 (with a task) deleted;
\* the rest is at 0,1,2 with X at 2
C6_Witness ==
  /\ last.op = "deleteList"
  /\ \A l \in ListsOfBoard(lists, last.scope) : lists[l].name # "In Progress"
  /\ \E x \in ListsOfBoard(lists, last.scope) : lists[x].name = "X" /\ lists[x].position = 2
  /\ \E a, c \in ListsOfBoard(lists, last.scope) :
       /\ lists[a].name = "To Do" /\ lists[a].position = 0
       /\ lists[c].name = "Done" /\ lists[c].position = 1
  /\ Cardinality(ListsOfBoard(lists, last.scope)) = 3
  /\ ids.task = 1
  /\ DOMAIN tasks = {}

\* the lists and tasks after request r is served alone in the store st
ServedAlone(st, r) ==
  IF r.op = "updateList" /\ r.id \in DOMAIN st.lists
  THEN [st EXCEPT !.lists = updateListRows(st.lists, r.id, NoName, r.position)]
  ELSE IF r.op = "deleteList" /\ r.id \in DOMAIN st.lists
  THEN [lists |-> deleteListRows(st.lists, r.id), tasks |-> CascadeTasks(st.tasks, r.id)]
  ELSE IF r.op = "moveTask" /\ r.id \in DOMAIN st.tasks /\ r.list_id \in DOMAIN st.lists
  THEN [st EXCEPT !.tasks = moveTaskRows(st.tasks, r.id, r.list_id, r.position)]
  ELSE st

RECURSIVE SerialOutcomes(_, _)
SerialOutcomes(st, C) ==
  IF C = {} THEN {st}
  ELSE UNION {SerialOutcomes(ServedAlone(st, req[c]), C \ {c}) : c \in C}

DenseStore(st) ==
  /\ \A b \in DOMAIN boards : DenseLists(st.lists, b)
  /\ \A l \in DOMAIN st.lists : DenseTasks(st.tasks, l)

AllResponded ==
  \A c \in Clients : req[c].pc = "done" /\ req[c].result \in {"OK", "NOT_FOUND", "BAD_REQUEST"}

\* C7: when concurrent reorder, move and delete requests have all been answered
\* without a rollback, the lists and tasks are those of serving the requests one
\* after the other in some order, and are dense whenever every such order
\* leaves them dense.
C7_ConcurrentSerializable ==
  AllResponded =>
    /\ [lists |-> lists, tasks |-> tasks]
         \in SerialOutcomes([lists |-> ConcLists, tasks |-> ConcTasks], Clients)
    /\ (\A st \in SerialOutcomes([lists |-> ConcLists, tasks |-> ConcTasks], Clients) :
          DenseStore(st))
         => DenseStore([lists |-> lists, tasks |-> tasks])

\* the position the transaction of request r gives the row it is about
Placed(r, ls, ts) ==
  IF r.op = "updateList" THEN r.id \in DOMAIN ls /\ ls[r.id].position = r.position
  ELSE IF r.op = "deleteList" THEN r.id \notin DOMAIN ls
  ELSE /\ r.id \in DOMAIN ts
       /\ ts[r.id].list_id = r.list_id
       /\ ts[r.id].position = r.position

\* C8: the lists and tasks the other requests can read change only in the step
\* that commits a transaction, and then by all of its writes at once, the shifts
\* together with the placement or the removal; a transaction that fails or rolls
\* back changes nothing.
C8_TransactionAtomic ==
  [][(lists' # lists \/ tasks' # tasks) =>
       \E c \in Clients :
         /\ req[c].pc = "commit"
         /\ req'[c].pc = "log"
         /\ lists' = Overlay(lists, req[c].wl)
         /\ tasks' = Overlay(tasks, req[c].wt)
         /\ Placed(req[c], lists', tasks')]_vars

\* a transaction has shifted rows and not yet placed its own, another one has
\* rolled back, and the committed rows are still those from before both
C8_Witness ==
  \E c, d \in Clients :
    /\ req[c].pc = "place"
    /\ DOMAIN req[c].wl \cup DOMAIN req[c].wt # {}
    /\ req[d].result = "ABORTED"
    /\ lists = ConcLists
    /\ tasks = ConcTasks

OneAfterLast(p, ps) ==
  /\ \A q \in ps : q < p
  /\ IF ps = {} THEN p = 0 ELSE p - 1 \in ps

\* C10: createList puts the new list at max(position)+1 of the board's lists (0
\* on a board without lists), createTask puts the new task at max(position)+1 of
\* the list's tasks (0 in an empty list); no existing row changes.
C10_CreateAppends ==
  [][/\ \A b \in DOMAIN boards : \A u \in Users, n \in ListNames :
          createList(b, u, n) =>
            \E l \in DOMAIN lists' \ DOMAIN lists :
              /\ DOMAIN lists' = DOMAIN lists \cup {l}
              /\ \A s \in DOMAIN lists : lists'[s] = lists[s]
              /\ lists'[l].board_id = b
              /\ OneAfterLast(lists'[l].position,
                              {lists[s].position : s \in ListsOfBoard(lists, b)})
     /\ \A l \in DOMAIN lists : \A u \in Users :
          createTask(u, l) =>
            \E t \in DOMAIN tasks' \ DOMAIN tasks :
              /\ DOMAIN tasks' = DOMAIN tasks \cup {t}
              /\ \A s \in DOMAIN tasks : tasks'[s] = tasks[s]
              /\ tasks'[t].list_id = l
              /\ OneAfterLast(tasks'[t].position,
                              {tasks[s].position : s \in TasksOfList(tasks, l)})]_vars

\* a list appended behind a gap (positions 0,1,3 then 4)
C10_Witness ==
  /\ last.op = "createList"
  /\ lists[last.id].position = 4
  /\ Cardinality(ListsOfBoard(lists, last.scope)) = 4

\* ---- authorization, members and assignees -----------------------------------------
StoreUnchanged == UNCHANGED <<boards, members, lists, tasks, log, ids, assignees>>

\* u sent the request this step answers: the response's user, or the user of
\* the log entry the served request wrote
Requester(u) ==
  IF "user" \in DOMAIN last' THEN last'.user = u
  ELSE log' # <<>> => log'[Len(log')].user_id = u

\* what user u is on board b: "owner", the role of the member row, or "none"
Standing(b, u) ==
  IF boards[b].owner_id = u THEN "owner"
  ELSE IF \E m \in members : m.board_id = b /\ m.user_id = u
       THEN (CHOOSE m \in members : m.board_id = b /\ m.user_id = u).role
  ELSE "none"

GateDecision(b, u, requiredRoles) ==
  IF b \notin DOMAIN boards THEN "NOT_FOUND"
  ELSE IF Standing(b, u) = "owner" THEN "OK"
  ELSE IF Standing(b, u) = "none" THEN "FORBIDDEN"
  ELSE IF requiredRoles # {} /\ Standing(b, u) \notin requiredRoles THEN "FORBIDDEN"
  ELSE "OK"

\* C11: a gated request is answered NOT_FOUND when the board does not exist, is
\* let through for the owner whatever the required roles, is answered FORBIDDEN
\* for a user without a member row and for a member whose role is not among the
\* non-empty required roles, and is let through otherwise; a request the gate
\* answers changes nothing, and one it lets through is answered by the handler.
C11_AuthorizeDecides ==
  [][/\ last'.op = "getBoard" =>
          \A u \in {x \in Profiles : Requester(x)}, b \in BoardIds :
            httpRead("getBoard", b, u) =>
              /\ last' = Answered("getBoard", u, GateDecision(b, u, {}))
              /\ StoreUnchanged
     /\ last'.op = "updateBoard" =>
          \A u \in {x \in Profiles : Requester(x)}, b \in BoardIds, n \in BoardNames :
            httpUpdateBoard(b, u, n) =>
              IF GateDecision(b, u, {"admin"}) # "OK"
              THEN /\ last' = Answered("updateBoard", u, GateDecision(b, u, {"admin"}))
                   /\ StoreUnchanged
              ELSE last'.result = updateBoardResult(b, u)
     /\ last'.op = "assignUser" =>
          \A u \in {x \in Profiles : Requester(x)}, b \in BoardIds, t \in AuthTasks, a \in Profiles :
            httpAssignUser(b, u, t, a) =>
              IF GateDecision(b, u, {"admin", "editor"}) # "OK"
              THEN /\ last' = Answered("assignUser", u, GateDecision(b, u, {"admin", "editor"}))
                   /\ StoreUnchanged
              ELSE last'.result = assignUserResult(t, a)]_vars

\* a viewer's assignUser request has been answered FORBIDDEN by the gate
C11_Witness ==
  /\ last.op = "assignUser"
  /\ last.result = "FORBIDDEN"
  /\ Standing(1, last.user) = "viewer"

\* the standings the permission table lets an operation succeed for
Allowed(op) ==
  IF op \in ReadOps \cup {"getTask"} THEN {"owner", "admin", "editor", "viewer"}
  ELSE IF op \in {"deleteList", "addMember"} THEN {"owner", "admin"}
  ELSE {"owner", "admin", "editor"}

Forbidden(op, u) == last' = Answered(op, u, "FORBIDDEN") /\ StoreUnchanged

\* the request of u through board b's routes, about a row of board c
Permitted(op, b, u, c) ==
  /\ b \in DOMAIN boards /\ Standing(b, u) \notin Allowed(op) => Forbidden(op, u)
  /\ c \in DOMAIN boards /\ Standing(c, u) \in {"viewer", "none"} => Forbidden(op, u)

BoardOfList(l) == IF l \in DOMAIN lists THEN lists[l].board_id ELSE 0

BoardOfTaskOr0(t) == IF t \in DOMAIN tasks THEN BoardOfTask(t) ELSE 0

\* C12: reads succeed for the owner and every member; list create/update and the
\* task and assignee mutations only for owner, admin, editor; list delete and
\* add-member only for owner, admin; a mutating request of a viewer of the board
\* whose list, task or assignee it is about, and any request of a non-member of
\* that board, is answered FORBIDDEN and changes nothing.
C12_PermissionTable ==
  [][\A b \in BoardIds, u \in Profiles :
       /\ last'.op \in ReadOps =>
            \A op \in ReadOps :
              httpRead(op, b, u) =>
                /\ StoreUnchanged
                /\ last'.result = IF Standing(b, u) = "none" THEN "FORBIDDEN" ELSE "OK"
       /\ last'.op = "getTask" =>
            \A t \in AuthTasks :
              httpGetTask(b, u, t) =>
                /\ StoreUnchanged
                /\ Standing(b, u) = "none" => last'.result = "FORBIDDEN"
                /\ Standing(b, u) # "none" /\ t \in DOMAIN tasks => last'.result = "OK"
       /\ last'.op = "addMember" =>
            \A n \in Profiles, r \in Roles :
              httpAddMember(b, u, n, r) => Permitted("addMember", b, u, b)
       /\ last'.op = "createList" =>
            \A n \in ListNames :
              httpCreateList(b, u, n) => Permitted("createList", b, u, b)
       /\ last'.op = "updateList" =>
            \A l \in AuthLists, p \in AuthPositions :
              httpUpdateList(b, u, l, p) => Permitted("updateList", b, u, BoardOfList(l))
       /\ last'.op = "deleteList" =>
            \A l \in AuthLists :
              httpDeleteList(b, u, l) => Permitted("deleteList", b, u, BoardOfList(l))
       /\ last'.op = "createTask" =>
            \A l \in AuthLists :
              httpCreateTask(b, u, l) => Permitted("createTask", b, u, BoardOfList(l))
       /\ last'.op = "updateTask" =>
            \A t \in AuthTasks :
              httpUpdateTask(b, u, t) => Permitted("updateTask", b, u, BoardOfTaskOr0(t))
       /\ last'.op = "deleteTask" =>
            \A t \in AuthTasks :
              httpDeleteTask(b, u, t) => Permitted("deleteTask", b, u, BoardOfTaskOr0(t))
       /\ last'.op = "moveTask" =>
            \A t \in AuthTasks, l \in AuthLists, p \in AuthPositions :
              httpMoveTask(b, u, t, l, p) => Permitted("moveTask", b, u, BoardOfTaskOr0(t))
       /\ last'.op = "assignUser" =>
            \A t \in AuthTasks, a \in Profiles :
              httpAssignUser(b, u, t, a) => Permitted("assignUser", b, u, BoardOfTaskOr0(t))
       /\ last'.op = "unassignUser" =>
            \A t \in AuthTasks, a \in Profiles :
              httpUnassignUser(b, u, t, a) => Permitted("unassignUser", b, u, BoardOfTaskOr0(t))]_vars

\* C13: an update of an existing board by anyone but its owner, a member with
\* role admin included, is answered FORBIDDEN and changes nothing; the owner's
\* update sets the board's name.
C13_OnlyOwnerUpdatesBoard ==
  [][last'.op = "updateBoard" =>
       \A b \in DOMAIN boards : \A u \in {x \in Profiles : Requester(x)}, n \in BoardNames :
         httpUpdateBoard(b, u, n) =>
           IF boards[b].owner_id # u
           THEN last' = Answered("updateBoard", u, "FORBIDDEN") /\ StoreUnchanged
           ELSE boards' = [boards EXCEPT ![b].name = n]]_vars

\* an admin, whom the route's gate lets through, has been answered FORBIDDEN
C13_Witness ==
  /\ last.op = "updateBoard"
  /\ last.result = "FORBIDDEN"
  /\ Standing(1, last.user) = "admin"
  /\ boards[1].name = BoardName

\* the rows that belong to board b: its lists, tasks, members, log entries, assignees
RowsOfBoard(b, bs, ls, ts, ms, entries, as) ==
  [board |-> IF b \in DOMAIN bs THEN {bs[b]} ELSE {},
   lists |-> {l \in DOMAIN ls : ls[l].board_id = b},
   tasks |-> {t \in DOMAIN ts : ts[t].list_id \in DOMAIN ls /\ ls[ts[t].list_id].board_id = b},
   members |-> {m \in ms : m.board_id = b},
   log |-> {i \in DOMAIN entries : entries[i].board_id = b},
   assignees |-> {a \in as : /\ a.task_id \in DOMAIN ts
                             /\ ts[a.task_id].list_id \in DOMAIN ls
                             /\ ls[ts[a.task_id].list_id].board_id = b}]

NoRowsOfBoard ==
  [board |-> {}, lists |-> {}, tasks |-> {}, members |-> {}, log |-> {}, assignees |-> {}]

\* C14: deleteBoard of a board that does not exist is answered NOT_FOUND, of
\* a board by anyone but its owner FORBIDDEN, both removing nothing; by the
\* owner it removes the board with all its lists, tasks, member rows, log
\* entries and assignee rows, and no row of another board.
C14_DeleteBoardOwnerOnly ==
  [][last'.op = "deleteBoard" =>
       \A b \in BoardIds, u \in Profiles :
         httpDeleteBoard(b, u) =>
           IF b \notin DOMAIN boards
           THEN last' = Answered("deleteBoard", u, "NOT_FOUND") /\ StoreUnchanged
           ELSE IF boards[b].owner_id # u
           THEN last' = Answered("deleteBoard", u, "FORBIDDEN") /\ StoreUnchanged
           ELSE /\ RowsOfBoard(b, boards', lists', tasks', members', log', assignees')
                     = NoRowsOfBoard
                /\ DOMAIN lists' = DOMAIN lists \ RowsOfBoard(b, boards, lists, tasks, members, log, assignees).lists
                /\ DOMAIN tasks' = DOMAIN tasks \ RowsOfBoard(b, boards, lists, tasks, members, log, assignees).tasks
                /\ \A c \in DOMAIN boards \ {b} :
                     /\ c \in DOMAIN boards' /\ boards'[c] = boards[c]
                     /\ RowsOfBoard(c, boards', lists', tasks', members', log', assignees').members
                          = RowsOfBoard(c, boards, lists, tasks, members, log, assignees).members
                     /\ Cardinality(RowsOfBoard(c, boards', lists', tasks', members', log', assignees').log)
                          = Cardinality(RowsOfBoard(c, boards, lists, tasks, members, log, assignees).log)
                     /\ \A l \in RowsOfBoard(c, boards, lists, tasks, members, log, assignees).lists :
                          lists'[l] = lists[l]]_vars

\* board 1, which had a member and a task, has been deleted by its owner; of
\* board 2 the lists and the log entry are still there
C14_Witness ==
  /\ last = Served("deleteBoard", 1, 0)
  /\ DOMAIN boards = {2}
  /\ DOMAIN tasks = {}
  /\ members = {}
  /\ assignees = {}
  /\ log = <<LogEntry(2, AuthStranger, "create", "board", NoTask)>>
  /\ ids.task = 1
  /\ DOMAIN lists = {4, 5, 6}

\* the conditions under which addMember adds a row
MayAdd(b, u, n) ==
  /\ b \in DOMAIN boards
  /\ Standing(b, u) \in {"owner", "admin"}
  /\ n \in Profiles
  /\ n # boards[b].owner_id

AddedRow(b, n, r) ==
  [board_id |-> b, user_id |-> n, role |-> IF r = NoRole THEN "editor" ELSE r]

\* what addMember does when it does not add: membership unchanged, FORBIDDEN for
\* an editor, viewer or non-member, NOT_FOUND for a target without a profile
NotAdded(b, u, n) ==
  /\ members' = members
  /\ b \in DOMAIN boards /\ Standing(b, u) \in {"editor", "viewer", "none"}
       => last' = Answered("addMember", u, "FORBIDDEN")
  /\ b \in DOMAIN boards /\ Standing(b, u) \in {"owner", "admin"} /\ n \notin Profiles
       => last' = Answered("addMember", u, "NOT_FOUND")

\* the roles a step may have been requested with: every one when a row was
\* added, and the omitted one alone otherwise, a refusal being the same for all
RolesToTry == IF last'.result = "OK" THEN Roles \cup {NoRole} ELSE {NoRole}

\* C15 as stated: addMember adds exactly the row (board, target, role or editor)
\* if and only if the board exists, the requester is owner or admin, the target
\* has a profile and is not the owner.
C15_AddMemberIff ==
  [][last'.op = "addMember" =>
       \A u \in {x \in Profiles : Requester(x)}, b \in BoardIds,
          n \in Profiles \cup {NoProfile}, r \in RolesToTry :
         httpAddMember(b, u, n, r) =>
           IF MayAdd(b, u, n)
           THEN /\ members' = members \cup {AddedRow(b, n, r)}
                /\ Cardinality(members') = Cardinality(members) + 1
           ELSE NotAdded(b, u, n)]_vars

\* C15: addMember adds exactly the row (board, target, role or editor) if and
\* only if the board exists, the requester is owner or admin, the target has a
\* profile, is not the owner and is not a member yet; on a target who is a
\* member already the insert fails on the unique constraint and membership is
\* unchanged.
C15_AddMemberIffNew ==
  [][last'.op = "addMember" =>
       \A u \in {x \in Profiles : Requester(x)}, b \in BoardIds,
          n \in Profiles \cup {NoProfile}, r \in RolesToTry :
         httpAddMember(b, u, n, r) =>
           IF MayAdd(b, u, n) /\ Standing(b, n) = "none"
           THEN /\ members' = members \cup {AddedRow(b, n, r)}
                /\ Cardinality(members') = Cardinality(members) + 1
           ELSE /\ NotAdded(b, u, n)
                /\ MayAdd(b, u, n) => last' = Answered("addMember", u, UniqueViolation)]_vars

\* the admin has added a user as a member
C15_Witness ==
  /\ last = Served("addMember", 1, 0)
  /\ log[Len(log)].user_id = AuthAdmin
  /\ Standing(1, AuthStranger) = "editor"
  /\ Cardinality(members) = 2

\* the conditions under which removeMember deletes the target's row
MayRemove(b, u, n) ==
  /\ b \in DOMAIN boards
  /\ Standing(b, n) \in Roles
  /\ Standing(b, u) \in {"owner", "admin"} \/ u = n

C17_OwnerNeverMember ==
  [][last'.op \in {"removeMember", "addMember"} =>
       \A u \in {x \in Profiles : Requester(x)}, b \in DOMAIN boards :
         /\ httpRemoveMember(b, u, boards[b].owner_id)
              => last'.result = "BAD_REQUEST" /\ members' = members
         /\ \A r \in RolesToTry :
              httpAddMember(b, u, boards[b].owner_id, r)
                => last'.result = "BAD_REQUEST" /\ members' = members]_vars

\* C17 (amended): removing the board's owner or adding the owner as a member
\* never changes membership; the answer is BAD_REQUEST when the requester is the
\* owner or an admin of the board and FORBIDDEN for every other requester.
C17_OwnerNeverMemberNew ==
  [][last'.op \in {"removeMember", "addMember"} =>
       \A u \in {x \in Profiles : Requester(x)}, b \in DOMAIN boards :
         LET answer == IF Standing(b, u) \in {"owner", "admin"}
                       THEN "BAD_REQUEST" ELSE "FORBIDDEN"
         IN  /\ httpRemoveMember(b, u, boards[b].owner_id)
                  => last'.result = answer /\ members' = members
             /\ \A r \in RolesToTry :
                  httpAddMember(b, u, boards[b].owner_id, r)
                    => last'.result = answer /\ members' = members]_vars

\* the admin's request aimed at the owner has been refused with BAD_REQUEST
C17_Witness ==
  /\ last \in {Answered(op, AuthAdmin, "BAD_REQUEST") : op \in {"removeMember", "addMember"}}
  /\ 1 \in DOMAIN boards
  /\ Standing(1, AuthAdmin) = "admin"

\* C18: the member rows of a board have pairwise distinct users, and none of
\* them is the board's owner.
C18_MembersDistinctNotOwner ==
  /\ \A m1, m2 \in members :
       m1.board_id = m2.board_id /\ m1.user_id = m2.user_id => m1 = m2
  /\ \A m \in members :
       /\ m.board_id \in DOMAIN boards
       /\ m.user_id # boards[m.board_id].owner_id

\* a second member has been added to a board, by the owner or an admin
C18_Witness ==
  /\ last = Served("addMember", 1, 0)
  /\ Cardinality({m \in members : m.board_id = 1}) = 2
  /\ Len(log) > 3

\* C19: every task-assignee row is for a user who is the owner or a current
\* member of the board holding the task, also after a member who is assigned
\* to tasks has been removed from the board.
C19_AssigneesAreMembers ==
  \A a \in assignees :
    /\ a.task_id \in DOMAIN tasks
    /\ BoardOfTask(a.task_id) \in DOMAIN boards
    /\ Standing(BoardOfTask(a.task_id), a.user_id) # "none"

\* C20: assignUser creates an assignee row only for a user who is the owner or
\* a member of the board holding the task, and then exactly that row; for any
\* other user a request that reaches the service for an existing task is
\* answered BAD_REQUEST and creates no row.
C20_AssignOnlyMembers ==
  [][last'.op = "assignUser" =>
       \A u \in {x \in Profiles : Requester(x)}, b \in BoardIds,
          t \in AuthTasks, n \in Profiles :
         httpAssignUser(b, u, t, n) =>
           /\ assignees' # assignees =>
                /\ t \in DOMAIN tasks
                /\ Standing(BoardOfTask(t), n) # "none"
                /\ assignees' = assignees \cup {[task_id |-> t, user_id |-> n]}
           /\ /\ PassGates(Gates("assignUser"), b, u) = "OK"
              /\ t \in DOMAIN tasks
              /\ Standing(BoardOfTask(t), n) = "none"
              => last'.result = "BAD_REQUEST" /\ assignees' = assignees]_vars

\* a member of the task's board has been assigned to the task
C20_Witness ==
  /\ last = Served("assignUser", 1, 1)
  /\ [task_id |-> 1, user_id |-> AuthMember] \in assignees
  /\ Standing(1, AuthMember) \in Roles

\* ---- assignees under concurrency, the activity log ----------------------------------
\* C21: there is at most one assignee row per (task, user), and of two concurrent
\* assignUser calls for the same pair of which one succeeded, the other one
\* ended with CONFLICT.
C21_DuplicateAssignConflict ==
  /\ \A t \in TaskIds, u \in Profiles : Cardinality(AssigneeRows(assignees, t, u)) <= 1
  /\ \A c, d \in Clients :
       /\ c # d
       /\ req[c].op = "assignUser" /\ req[d].op = "assignUser"
       /\ req[c].pc = "done" /\ req[d].pc = "done"
       /\ req[c].id = req[d].id /\ req[c].assignee_id = req[d].assignee_id
       /\ req[c].result = "OK"
       => req[d].result = "CONFLICT"

\* C22: unassignUser on a (task, user) pair without assignee row is answered
\* NOT_FOUND and changes nothing; on an existing pair it removes exactly that
\* row, after which a second unassignUser of the pair is NOT_FOUND; and
\* assignUser adds exactly the row that unassignUser takes away again.
C22_UnassignExact ==
  [][last'.op \in {"assignUser", "unassignUser"} =>
       \A u \in {x \in Profiles : Requester(x)}, b \in BoardIds,
          t \in AuthTasks, n \in Profiles :
         LET pair == [task_id |-> t, user_id |-> n]
         IN  /\ /\ last'.op = "unassignUser"
                /\ httpUnassignUser(b, u, t, n)
                /\ PassGates(Gates("unassignUser"), b, u) = "OK"
                /\ t \in DOMAIN tasks
                => IF pair \notin assignees
                   THEN last'.result = "NOT_FOUND" /\ StoreUnchanged
                   ELSE /\ last'.result = "OK"
                        /\ assignees' = assignees \ {pair}
                        /\ (unassignUserResult(t, n))' = "NOT_FOUND"
             /\ last'.op = "assignUser" /\ last'.result = "OK" /\ httpAssignUser(b, u, t, n)
                => /\ pair \notin assignees
                   /\ assignees' \ {pair} = assignees
                   /\ (unassignUserResult(t, n))' = "OK"]_vars

\* the admin has been assigned to task 1 and unassigned again
C22_Witness ==
  /\ last = Served("unassignUser", 1, 1)
  /\ assignees = {}
  /\ Len(log) = 5
  /\ log[4] = LogEntry(1, AuthOwner, "create", "task", 1)
  /\ log[5] = LogEntry(1, AuthOwner, "delete", "task", 1)

\* no request is in flight
Quiet == \A c \in Clients : req[c].pc \in {"idle", "done"}

LogCount(action, entity, t) ==
  Cardinality({i \in DOMAIN log : /\ log[i].action_type = action
                                  /\ log[i].entity_type = entity
                                  /\ log[i].task_id = t})

\* C23: a mutation and its activity-log entry go together: once every request
\* has been answered, each task ever created has exactly one create entry, a
\* deleted task exactly one delete entry and a task that still exists none, and
\* each request answered OK has added one entry.
C23_MutationWithLog ==
  Quiet =>
    /\ \A t \in 1..ids.task :
         /\ LogCount("create", "task", t) = 1
         /\ LogCount("delete", "task", t) = IF t \in DOMAIN tasks THEN 0 ELSE 1
    /\ LogCount("create", "list", NoTask) = ids.newLists

Prefix(s, t) == Len(s) <= Len(t) /\ SubSeq(t, 1, Len(s)) = s

BoardLog(entries, b) == SelectSeq(entries, LAMBDA e : e.board_id = b)

C25_AuthorizedOnOwningBoard ==
  [][/\ last'.op \in {"createTask", "updateTask", "deleteTask", "moveTask",
                      "assignUser", "unassignUser", "updateList", "deleteList"}
     /\ last'.result = "OK"
     /\ log' # log
     => LET u == log'[Len(log')].user_id
            b == IF last'.op \in {"updateList", "deleteList"} THEN last'.scope
                 ELSE lists[last'.scope].board_id
        IN  Standing(b, u) \in {"owner"} \cup Allowed(last'.op)]_vars

\* C26: when two concurrent createList requests on one board, or two concurrent
\* createTask requests on one list, have both been served, the two new rows
\* have distinct positions and the positions of the scope are dense.
C26_ConcurrentCreateDense ==
  \A c, d \in Clients :
    /\ c # d
    /\ req[c].pc = "done" /\ req[d].pc = "done"
    /\ req[c].result = "OK" /\ req[d].result = "OK"
    => /\ /\ req[c].op = "createTask" /\ req[d].op = "createTask"
          /\ req[c].list_id = req[d].list_id
          => /\ tasks[req[c].id].position # tasks[req[d].id].position
             /\ DenseTasks(tasks, req[c].list_id)
       /\ /\ req[c].op = "createList" /\ req[d].op = "createList"
          /\ req[c].board_id = req[d].board_id
          => /\ lists[req[c].id].position # lists[req[d].id].position
             /\ DenseLists(lists, req[c].board_id)

\* C30: every assignee row is committed by a user who, at the moment of the
\* commit, is the owner of the task's board or a member of it with role admin
\* or editor: a member whose row has been removed commits nothing afterwards.
C30_AuthorizedAtCommit ==
  [][\A c \in Clients :
       /\ req[c].op = "assignUser"
       /\ req[c].pc = "createAssignee"
       /\ req'[c].pc = "logAssign"
       /\ assignees' # assignees
       => Standing(req[c].board_id, req[c].user_id) \in {"owner", "admin", "editor"}]_vars

TypedErrors == {"NOT_FOUND", "FORBIDDEN", "BAD_REQUEST", "CONFLICT"}

\* where a request stands while it has only read
BeforeWrite ==
  {"idle", "gateBoard", "gateMember", "service", "readBoard", "readMembership",
   "readExisting", "readRequester", "readTargetMember"}

CreatedOnItsBoard(ls, ts, entries) ==
  \A t \in DOMAIN ts : \A i \in DOMAIN entries :
    /\ entries[i].action_type = "create"
    /\ entries[i].entity_type = "task"
    /\ entries[i].task_id = t
    => entries[i].board_id = ls[ts[t].list_id].board_id

\* C28: a task never changes board: a moveTask that reaches the service with a
\* target list of another board is answered BAD_REQUEST, with a target list
\* that does not exist NOT_FOUND, and both leave all tasks as they are; no step
\* changes the board of a task, and every task's list is on the board the task
\* was created on.
C28_TaskKeepsBoard ==
  [][/\ last'.op = "moveTask" =>
          \A u \in {x \in Profiles : Requester(x)}, b \in BoardIds, t \in AuthTasks,
             l \in MoveLists, p \in MovePositions :
            /\ httpMoveTask(b, u, t, l, p)
            /\ PassGates(Gates("moveTask"), b, u) = "OK"
            /\ t \in DOMAIN tasks
            => /\ l \notin DOMAIN lists
                    => last'.result = "NOT_FOUND" /\ tasks' = tasks
               /\ l \in DOMAIN lists /\ lists[l].board_id # BoardOfTask(t)
                    => last'.result = "BAD_REQUEST" /\ tasks' = tasks
     /\ \A t \in DOMAIN tasks \cap DOMAIN tasks' :
          lists'[tasks'[t].list_id].board_id = lists[tasks[t].list_id].board_id
     /\ CreatedOnItsBoard(lists', tasks', log')]_vars

\* a task was created on board 2, and then a move of a task to a list of the
\* other board has been refused
C28_Witness ==
  /\ last = Answered("moveTask", AuthStranger, "BAD_REQUEST")
  /\ 2 \in DOMAIN tasks
  /\ lists[tasks[2].list_id].board_id = 2
  /\ lists[tasks[1].list_id].board_id = 1

\* the rows of ls whose list is on another board than b are in ls2 as they were
OtherBoardsKept(ls, ls2, b) ==
  \A x \in DOMAIN ls : ls[x].board_id # b => x \in DOMAIN ls2 /\ ls2[x] = ls[x]

\* the tasks of ts outside the lists of scope are in ts2 as they were
OtherListsKept(ts, ts2, scope) ==
  \A x \in DOMAIN ts : ts[x].list_id \notin scope => x \in DOMAIN ts2 /\ ts2[x] = ts[x]

\* C29: position changes are confined to the affected scope: updateList and
\* deleteList leave the lists of every other board as they were, moveTask leaves
\* the tasks outside the source and the target list as they were; updateList
\* without a position or with the list's current position, moveTask to the
\* task's current list and position, updateTask and every refused request
\* change no position of a list or task and no task's list.
C29_PositionsConfined ==
  [][/\ last'.op = "updateList" /\ last'.result = "OK" =>
          \A u \in {x \in Profiles : Requester(x)}, b \in BoardIds,
             l \in FrameLists \cap DOMAIN lists, p \in FramePositions :
            httpUpdateList(b, u, l, p)
            => /\ OtherBoardsKept(lists, lists', lists[l].board_id)
               /\ tasks' = tasks
               /\ p \in {NoPosition, lists[l].position}
                    => /\ DOMAIN lists' = DOMAIN lists
                       /\ \A x \in DOMAIN lists : lists'[x].position = lists[x].position
     /\ last'.op = "deleteList" /\ last'.result = "OK" =>
          \A u \in {x \in Profiles : Requester(x)}, b \in BoardIds,
             l \in FrameLists \cap DOMAIN lists :
            httpDeleteList(b, u, l)
            => /\ OtherBoardsKept(lists, lists', lists[l].board_id)
               /\ OtherListsKept(tasks, tasks', {l})
     /\ last'.op = "moveTask" /\ last'.result = "OK" =>
          \A u \in {x \in Profiles : Requester(x)}, b \in BoardIds,
             t \in AuthTasks \cap DOMAIN tasks, l \in FrameLists, p \in MovePositions :
            httpMoveTask(b, u, t, l, p)
            => /\ lists' = lists
               /\ OtherListsKept(tasks, tasks', {tasks[t].list_id, l})
               /\ l = tasks[t].list_id /\ p = tasks[t].position => tasks' = tasks
     /\ last'.op = "updateTask" \/ last'.result # "OK" => tasks' = tasks /\ lists' = lists]_vars

\* the second list of board 1 has been moved to the front of its board, after a
\* task was created on board 2: board 2's lists and task are where they were
C29_Witness ==
  /\ last.op = "updateList" /\ last.result = "OK"
  /\ {1, 2} \subseteq DOMAIN lists
  /\ lists[2].position = 0 /\ lists[1].position = 1
  /\ \A l \in ListsOfBoard(lists, 2) : lists[l].position = l - Len(DefaultLists) - 1
  /\ \E t \in DOMAIN tasks : lists[tasks[t].list_id].board_id = 2 /\ tasks[t].position = 0

====
